---- MODULE Spec2Model ----
(***************************************************************************)
(* Model of the todo-list persistence core: the in-memory List and Task    *)
(* repositories and the SQLite-backed List and Task repositories, driven   *)
(* in lockstep by one sequence of operations so that the results of the    *)
(* two backends can be compared operation by operation.                    *)
(*                                                                         *)
(* Time is a millisecond counter (`clock`).  Identifiers (uuidv4) are      *)
(* modelled by a counter: every create draws a fresh value, and the two    *)
(* backends draw the same one so that ids can be compared literally.       *)
(***************************************************************************)
EXTENDS Integers, Sequences, FiniteSets, TLC

(* ------------------------------- bounds -------------------------------- *)
\* lists created in one behaviour of Spec
MaxLists == 2
\* tasks created in one behaviour of SpecQuery
MaxTasks == 2
\* clock values in one day
TicksPerDay == 2
\* lists, and tasks, created in one behaviour of SpecWeek
WeekCreates == 2
\* lists and tasks created, taken together, in one behaviour of SpecAbsent
AbsentCreates == 1
\* lists and tasks created, taken together, in one behaviour of SpecService
ServiceCreates == 2
\* lists, and tasks, created in one behaviour of SpecGuard
GuardCreates == 2
\* lists and tasks created, taken together, in one behaviour of SpecPatch
PatchCreates == 1
\* lists, and tasks, created in one behaviour of SpecDelete
DeleteCreates == 2
\* calls of the services in flight together in SpecRace
RaceCalls == 2
\* lists, and tasks, created in one behaviour of SpecRace
RaceCreates == 2
\* calls of the in-memory Task Store in flight together in SpecTimer
TimerCalls == 2
\* tasks created in one behaviour of SpecTimer
TimerTasks == 1
\* lists and tasks created, taken together, in one behaviour of SpecRead
ReadCreates == 2
\* Database objects constructed in one behaviour of SpecConnection
MaxHandles == 2
\* repository objects constructed in one behaviour of SpecFactory
MaxInstances == 4
\* migration files in the migrations directory
MigrationFiles == 3
\* executions of a migration file's SQL in one behaviour of SpecMigration
MaxExecutions == 5
\* tasks created in one behaviour of SpecDue
DueTasks == 2
\* tasks created in one behaviour of SpecFilter
FilterTasks == 2
\* lists and tasks created, taken together, in one behaviour of SpecUpdate
FewCreates == 1
\* tasks created in one behaviour of Spec
FewTasks == 1
\* longest name of a list, title of a task, description of either
MaxNameLength == 255
MaxTitleLength == 255
MaxListDescriptionLength == 1000
MaxTaskDescriptionLength == 1000
\* the last day of the week, as getDay() numbers it
LastDayOfWeek == 6
DaysPerWeek == LastDayOfWeek + 1
\* last clock value explored
MaxClock == 2
\* longest over-run of the 10 ms timer, in clock units
MaxDelay == 1

(* ------------------------------- values -------------------------------- *)
\* JavaScript null in a Date-valued field (dates are clock values >= 0)
NULL == -1
\* JavaScript null in a string-valued field
NullStr == "<null>"
\* SQL NULL in a TEXT column holding an ISO timestamp (see ToISO)
SqlNull == << >>

Descriptions == {"d"}
Priorities   == {"low", "medium", "high"}
SortFields   == {"deadline", "createdAt", "priority", "title"}
SortOrders   == {"asc", "desc"}

(* --------------------------- sequence helpers -------------------------- *)
Range(s) == {s[i] : i \in 1 .. Len(s)}

\* position of the entry with this id in a Map's insertion order, 0 if none
IndexOf(s, id) ==
  IF \E i \in 1 .. Len(s) : s[i].id = id
  THEN CHOOSE i \in 1 .. Len(s) : s[i].id = id
  ELSE 0

\* Map.has
Has(s, id) == IndexOf(s, id) # 0

\* a Map whose set moves an existing key to the end (delete, then insert):
\* the variant of Map.set under which creation order would not survive updates
MapSet_reinsert(s, e) ==
  Append(SelectSeq(s, LAMBDA x : x.id # e.id), e)

\* Map.set: an existing key keeps its position, a new key goes last
MapSet(s, e) ==
  IF Has(s, e.id) THEN [s EXCEPT ![IndexOf(s, e.id)] = e] ELSE Append(s, e)

\* Map.delete
MapDelete(s, id) == SelectSeq(s, LAMBDA e : e.id # id)

\* strings by length: s twice, and s twice followed by one more character
Twice(s) == s \o s
TwicePlusOne(s) == s \o s \o "x"
\* 255 characters, 256, 1000 and 1001
Text255 ==
  TwicePlusOne(TwicePlusOne(TwicePlusOne(TwicePlusOne(TwicePlusOne(
    TwicePlusOne(TwicePlusOne("x")))))))
Text256 == Text255 \o "x"
Text1000 ==
  Twice(Twice(Twice(TwicePlusOne(Twice(TwicePlusOne(TwicePlusOne(
    TwicePlusOne(TwicePlusOne("x")))))))))
Text1001 == Text1000 \o "x"
\* a string of white space
Blank == "  "

(* ----------------------------- conversions ----------------------------- *)
\* Date.prototype.toISOString: a fixed-width, zero-padded rendering; two
\* digits stand for the 24 characters of YYYY-MM-DDTHH:mm:ss.sssZ
ToISO(t) == <<t \div 10, t % 10>>

\* new Date(isoString)
FromISO(s) == s[1] * 10 + s[2]

\* SQLite's comparison of two TEXT values (memcmp): <0, 0, >0
TextCompare(a, b) ==
  IF a[1] # b[1] THEN a[1] - b[1] ELSE a[2] - b[2]

\* String.prototype.localeCompare on the strings of the model: letters are
\* ordered alphabetically, lower case before upper case of the same letter
LocaleRank(s) ==
  CASE s = "a" -> 1 [] s = "B" -> 2
    [] s = "high" -> 3 [] s = "low" -> 4 [] s = "medium" -> 5

localeCompare(a, b) == LocaleRank(a) - LocaleRank(b)

\* SQLite's BINARY collation on the same strings: code-point order, so an
\* upper-case letter sorts before every lower-case one
BinaryRank(s) ==
  CASE s = "B" -> 1 [] s = "a" -> 2
    [] s = "high" -> 3 [] s = "low" -> 4 [] s = "medium" -> 5

BinaryCompare(a, b) == BinaryRank(a) - BinaryRank(b)

\* node-sqlite3 binds a JavaScript boolean as the integer 0 or 1
BindBool(b) == IF b THEN 1 ELSE 0

\* Boolean(row.completed)
Boolean(n) == n # 0

\* String.prototype.trim; of the strings of the model only Blank holds
\* white space
Trim(s) == IF s = Blank THEN "" ELSE s

(* -------------------------------- state -------------------------------- *)
VARIABLES
  clock,          \* the wall clock read by new Date()
  nextId,         \* ids generated so far: [list |-> n, task |-> m]
  memLists,       \* MemoryListRepository.lists, in insertion order
  memListTasks,   \* MemoryListRepository.tasks, in insertion order
  memTasks,       \* MemoryTaskRepository.tasks, in insertion order
  sqlLists,       \* rows of table lists, in rowid order
  sqlTasks,       \* rows of table tasks, in rowid order
  last,           \* the last operation, its arguments and both results
  calls,          \* the calls issued since the stores were last at rest
  migrations,     \* rows of table migrations (filename), in id order
  schemaLog,      \* migration files whose SQL has run, in the order it ran
  listRepository, \* RepositoryFactory.listRepository
  taskRepository, \* RepositoryFactory.taskRepository
  instances,      \* repository objects constructed so far
  env,            \* the environment configuration, once loaded
  db,             \* DatabaseConnection.db
  handles,        \* Database objects constructed so far
  connected       \* a connect() has resolved and no close() has since

vars == <<clock, nextId, memLists, memListTasks, memTasks,
          sqlLists, sqlTasks, last, calls, migrations, schemaLog,
          listRepository, taskRepository, instances, env, db, handles, connected>>

stores == <<memLists, memListTasks, memTasks, sqlLists, sqlTasks>>

\* the state of the repositories, of the migration manager, of the
\* repository factory and of the database connection
storeVars      == <<clock, nextId, stores, last>>
migrationVars  == <<migrations, schemaLog>>
factoryVars    == <<listRepository, taskRepository, instances, env>>
connectionVars == <<db, handles, connected>>

\* what an operation issued on the stores at rest leaves alone
others == <<calls, migrationVars, factoryVars, connectionVars>>

\* JavaScript null in a field that holds an object
Null == [kind |-> "null"]

\* results handed back to the caller
Absent      == [kind |-> "null"]
Entity(e)   == [kind |-> "entity", val |-> e]
Entities(s) == [kind |-> "array", val |-> s]
Bool(b)     == [kind |-> "boolean", val |-> b]
Thrown      == [kind |-> "error"]

\* uuidv4(): the n-th identifier generated for a list, for a task
ListId(n) == <<"L", n>>
TaskId(n) == <<"T", n>>

\* ids a caller can name: every id handed out so far and one, ListId(0) or
\* TaskId(0), that was never handed out
KnownListIds == {ListId(n) : n \in 0 .. nextId.list}
KnownTaskIds == {TaskId(n) : n \in 0 .. nextId.task}

\* { ...target, ...data }: object spread of a patch over an entity
Spread(target, data) ==
  [f \in DOMAIN target |-> IF f \in DOMAIN data THEN data[f] ELSE target[f]]

\* data.description || null
OrNull(data, f) ==
  IF f \in DOMAIN data /\ data[f] # "" THEN data[f] ELSE NullStr

(* ======================= MemoryListRepository ========================== *)
\* Array.from(this.tasks.values()).filter(task => task.listId === id)
MemoryListRepository_tasksOf(ltasks, id) ==
  SelectSeq(ltasks, LAMBDA task : task.listId = id)

\* create(data): t1 and t2 are the two readings of new Date()
\* create that refuses a name without a visible character
MemoryListRepository_create_checked(lists, data, id, t1, t2) ==
  IF Trim(data.name) = ""
  THEN [lists |-> lists, result |-> [kind |-> "error", name |-> "ValidationError"]]
  ELSE LET list == [id |-> id, name |-> data.name,
                    description |-> OrNull(data, "description"),
                    createdAt |-> t1, updatedAt |-> t2, tasks |-> << >>]
       IN  [lists |-> MapSet(lists, list), result |-> Entity(list)]

MemoryListRepository_create(lists, data, id, t1, t2) ==
  LET list == [id |-> id, name |-> data.name,
               description |-> OrNull(data, "description"),
               createdAt |-> t1, updatedAt |-> t2, tasks |-> << >>]
  IN  [lists |-> MapSet(lists, list), result |-> Entity(list)]

MemoryListRepository_withTasks(list, ltasks) ==
  [list EXCEPT !.tasks = MemoryListRepository_tasksOf(ltasks, list.id)]

MemoryListRepository_findAll(lists, ltasks) ==
  Entities([i \in 1 .. Len(lists) |->
              MemoryListRepository_withTasks(lists[i], ltasks)])

MemoryListRepository_findAllWithTasks(lists, ltasks) ==
  Entities([i \in 1 .. Len(lists) |->
              MemoryListRepository_withTasks(lists[i], ltasks)])

MemoryListRepository_findById(lists, ltasks, id) ==
  IF ~Has(lists, id) THEN Absent
  ELSE Entity(MemoryListRepository_withTasks(lists[IndexOf(lists, id)], ltasks))

MemoryListRepository_findByIdWithTasks(lists, ltasks, id) ==
  IF ~Has(lists, id) THEN Absent
  ELSE Entity(MemoryListRepository_withTasks(lists[IndexOf(lists, id)], ltasks))

\* update(id, data): t is new Date() read after the 10 ms timer has fired
\* update that stores a list under an id it does not find
MemoryListRepository_update_upsert(lists, ltasks, id, data, t) ==
  IF ~Has(lists, id)
  THEN [lists |-> Append(lists, [id |-> id, name |-> "", description |-> NullStr,
                                 createdAt |-> t, updatedAt |-> t, tasks |-> << >>]),
        result |-> Absent]
  ELSE LET list == lists[IndexOf(lists, id)]
           updatedList ==
             [Spread(list, data) EXCEPT
                !.updatedAt = t,
                !.tasks = MemoryListRepository_tasksOf(ltasks, id)]
       IN  [lists |-> MapSet(lists, updatedList), result |-> Entity(updatedList)]

MemoryListRepository_update(lists, ltasks, id, data, t) ==
  IF ~Has(lists, id) THEN [lists |-> lists, result |-> Absent]
  ELSE LET list == lists[IndexOf(lists, id)]
           updatedList ==
             [Spread(list, data) EXCEPT
                !.updatedAt = t,
                !.tasks = MemoryListRepository_tasksOf(ltasks, id)]
       IN  [lists |-> MapSet(lists, updatedList), result |-> Entity(updatedList)]

\* delete(id): removes the list and the tasks of this repository's own map
MemoryListRepository_delete(lists, ltasks, id) ==
  [lists  |-> MapDelete(lists, id),
   tasks  |-> SelectSeq(ltasks, LAMBDA task : task.listId # id),
   result |-> Bool(Has(lists, id))]

MemoryListRepository_exists(lists, id) == Bool(Has(lists, id))

\* addTask(task)
MemoryListRepository_addTask(ltasks, task) == MapSet(ltasks, task)

(* ======================= MemoryTaskRepository ========================== *)
\* Array.prototype.sort: stable (ECMAScript 2019), so for a consistent
\* comparator the element at index i lands behind every element that
\* compares smaller and every equal element that stood before it
Sort(s, cmp) ==
  LET n == Len(s)
      pos(i) == 1 + Cardinality({j \in 1 .. n :
                      \/ cmp[j][i] < 0
                      \/ cmp[j][i] = 0 /\ j < i})
  IN  [k \in 1 .. n |-> s[CHOOSE i \in 1 .. n : pos(i) = k]]

\* create(listId, data): t1 and t2 are the two readings of new Date()
MemoryTaskRepository_create(tasks, listId, data, id, t1, t2) ==
  LET task == [id |-> id, title |-> data.title,
               description |-> OrNull(data, "description"),
               completed |-> FALSE,
               deadline |-> IF "deadline" \in DOMAIN data
                            THEN data.deadline ELSE NULL,
               priority |-> IF "priority" \in DOMAIN data /\ data.priority # ""
                            THEN data.priority ELSE "medium",
               listId |-> listId, createdAt |-> t1, updatedAt |-> t2]
  IN  [tasks |-> MapSet(tasks, task), result |-> Entity(task)]

MemoryTaskRepository_findById(tasks, id) ==
  IF Has(tasks, id) THEN Entity(tasks[IndexOf(tasks, id)]) ELSE Absent

\* update without the re-stamp: the merged task keeps the stored updatedAt
MemoryTaskRepository_update_unstamped(tasks, id, data, t) ==
  IF ~Has(tasks, id) THEN [tasks |-> tasks, result |-> Absent]
  ELSE LET task == tasks[IndexOf(tasks, id)]
           updatedTask == [Spread(task, data) EXCEPT !.updatedAt = task.updatedAt]
       IN  [tasks |-> MapSet(tasks, updatedTask), result |-> Entity(updatedTask)]

\* update(id, data): t is new Date() read after the 10 ms timer has fired
MemoryTaskRepository_update(tasks, id, data, t) ==
  IF ~Has(tasks, id) THEN [tasks |-> tasks, result |-> Absent]
  ELSE LET task == tasks[IndexOf(tasks, id)]
           updatedTask == [Spread(task, data) EXCEPT !.updatedAt = t]
       IN  [tasks |-> MapSet(tasks, updatedTask), result |-> Entity(updatedTask)]

\* delete that reports success whether or not the key was there
MemoryTaskRepository_delete_always(tasks, id) ==
  [tasks |-> MapDelete(tasks, id), result |-> Bool(TRUE)]

MemoryTaskRepository_delete(tasks, id) ==
  [tasks |-> MapDelete(tasks, id), result |-> Bool(Has(tasks, id))]

\* toggleComplete as a set: completed becomes true whatever it was
MemoryTaskRepository_toggleComplete_set(tasks, id, t) ==
  IF ~Has(tasks, id) THEN [tasks |-> tasks, result |-> Absent]
  ELSE LET task == tasks[IndexOf(tasks, id)]
           updatedTask == [task EXCEPT !.completed = TRUE, !.updatedAt = t]
       IN  [tasks |-> MapSet(tasks, updatedTask), result |-> Entity(updatedTask)]

\* toggleComplete(id): t as in update
MemoryTaskRepository_toggleComplete(tasks, id, t) ==
  IF ~Has(tasks, id) THEN [tasks |-> tasks, result |-> Absent]
  ELSE LET task == tasks[IndexOf(tasks, id)]
           updatedTask == [task EXCEPT !.completed = ~task.completed,
                                       !.updatedAt = t]
       IN  [tasks |-> MapSet(tasks, updatedTask), result |-> Entity(updatedTask)]

\* The Map after a read that sorted its result: sort works in place on the
\* array that Array.from(this.tasks.values()) built, which is not the Map.
\* a sort that reorders the entries of the Map itself
MemoryTaskRepository_afterSort_shared(tasks, sorted) ==
  IF Len(sorted) = Len(tasks) THEN sorted ELSE tasks

MemoryTaskRepository_afterSort(tasks, sorted) == tasks

\* update(id, data) from its timer on: `task` is what this.tasks.get(id)
\* returned before the timer was set, t is new Date()
MemoryTaskRepository_updateAfterTimer(tasks, task, data, t) ==
  LET updatedTask == [Spread(task, data) EXCEPT !.updatedAt = t]
  IN  [tasks |-> MapSet(tasks, updatedTask), result |-> Entity(updatedTask)]

\* toggleComplete(id) from its timer on
MemoryTaskRepository_toggleCompleteAfterTimer(tasks, task, t) ==
  LET updatedTask == [task EXCEPT !.completed = ~task.completed, !.updatedAt = t]
  IN  [tasks |-> MapSet(tasks, updatedTask), result |-> Entity(updatedTask)]

MemoryTaskRepository_exists(tasks, id) == Bool(Has(tasks, id))

\* a comparator that applies the direction to the whole comparison, the
\* absent-deadline cases included
DeadlineComparator_reversed(a, b, order) ==
  LET comparison == IF a.deadline = NULL /\ b.deadline = NULL THEN 0
                    ELSE IF a.deadline = NULL THEN 1
                    ELSE IF b.deadline = NULL THEN -1
                    ELSE a.deadline - b.deadline
  IN  IF order = "asc" THEN comparison ELSE -comparison

\* the comparator of findSortedByDeadline
DeadlineComparator(a, b, order) ==
  IF a.deadline = NULL /\ b.deadline = NULL THEN 0
  ELSE IF a.deadline = NULL THEN 1
  ELSE IF b.deadline = NULL THEN -1
  ELSE LET comparison == a.deadline - b.deadline
       IN  IF order = "asc" THEN comparison ELSE -comparison

MemoryTaskRepository_findSortedByDeadline(tasks, order) ==
  Entities(Sort(tasks, [i \in 1 .. Len(tasks) |-> [j \in 1 .. Len(tasks) |->
                          DeadlineComparator(tasks[i], tasks[j], order)]]))

\* the comparator of applyFiltersAndSorting; params.sortBy is present
QueryComparator(a, b, params) ==
  LET desc == "sortOrder" \in DOMAIN params /\ params.sortOrder = "desc"
      aValue == a[params.sortBy]
      bValue == b[params.sortBy]
  IN  IF params.sortBy \in {"title", "priority"}
      THEN LET comparison == localeCompare(aValue, bValue)
           IN  IF desc THEN -comparison ELSE comparison
      ELSE IF aValue = NULL /\ bValue = NULL THEN 0
      ELSE IF aValue = NULL THEN 1
      ELSE IF bValue = NULL THEN -1
      ELSE LET comparison == aValue - bValue
           IN  IF desc THEN -comparison ELSE comparison

\* applyFiltersAndSorting(tasks, params); an empty params object filters
\* and sorts nothing, like an absent one
MemoryTaskRepository_applyFiltersAndSorting(tasks, params) ==
  LET byCompleted == IF "completed" \in DOMAIN params
                     THEN SelectSeq(tasks, LAMBDA task : task.completed = params.completed)
                     ELSE tasks
      byPriority  == IF "priority" \in DOMAIN params
                     THEN SelectSeq(byCompleted, LAMBDA task : task.priority = params.priority)
                     ELSE byCompleted
      filteredTasks == IF "listId" \in DOMAIN params
                     THEN SelectSeq(byPriority, LAMBDA task : task.listId = params.listId)
                     ELSE byPriority
  IN  IF "sortBy" \in DOMAIN params
      THEN Sort(filteredTasks,
                [i \in 1 .. Len(filteredTasks) |-> [j \in 1 .. Len(filteredTasks) |->
                   QueryComparator(filteredTasks[i], filteredTasks[j], params)]])
      ELSE filteredTasks

MemoryTaskRepository_findAll(tasks, params) ==
  Entities(MemoryTaskRepository_applyFiltersAndSorting(tasks, params))

MemoryTaskRepository_findByListId(tasks, listId, params) ==
  Entities(MemoryTaskRepository_applyFiltersAndSorting(
             SelectSeq(tasks, LAMBDA task : task.listId = listId), params))

\* Date.prototype.getDay: 0 for Sunday to 6 for Saturday; clock value 0 is
\* the local midnight that begins a Sunday
GetDay(now) == (now \div TicksPerDay) % DaysPerWeek

\* setDate(now.getDate() - now.getDay()); setHours(0, 0, 0, 0)
StartOfWeek(now) == (now - (now % TicksPerDay)) - GetDay(now) * TicksPerDay

\* the week ending a day early
EndOfWeek_short(now) ==
  StartOfWeek(now) + (LastDayOfWeek - 1) * TicksPerDay + (TicksPerDay - 1)

\* setDate(startOfWeek.getDate() + 6); setHours(23, 59, 59, 999)
EndOfWeek(now) ==
  StartOfWeek(now) + LastDayOfWeek * TicksPerDay + (TicksPerDay - 1)

\* findDueInRange with the end of the range left out of it
MemoryTaskRepository_findDueInRange_open(tasks, startDate, endDate) ==
  Entities(SelectSeq(tasks, LAMBDA task :
             IF task.deadline = NULL THEN FALSE
             ELSE task.deadline >= startDate /\ task.deadline < endDate))

\* findDueInRange(startDate, endDate): Dates compare by their time values
MemoryTaskRepository_findDueInRange(tasks, startDate, endDate) ==
  Entities(SelectSeq(tasks, LAMBDA task :
             IF task.deadline = NULL THEN FALSE
             ELSE task.deadline >= startDate /\ task.deadline <= endDate))

\* findDueThisWeek(), run at time now
MemoryTaskRepository_findDueThisWeek(tasks, now) ==
  MemoryTaskRepository_findDueInRange(tasks, StartOfWeek(now), EndOfWeek(now))

(* ============================ SQLite engine ============================ *)
\* SELECT ... ORDER BY: every arrangement of the rows that respects the
\* ordering terms; rows that tie on all terms come in an order the engine
\* chooses (index scan or sorter), so each arrangement is a possible result
OrderBy(rows, cmp) ==
  LET n == Len(rows)
      perms == {p \in [1 .. n -> 1 .. n] :
                  /\ \A i, j \in 1 .. n : i # j => p[i] # p[j]
                  /\ \A i \in 1 .. n - 1 : cmp[p[i]][p[i + 1]] <= 0}
  IN  {[k \in 1 .. n |-> rows[p[k]]] : p \in perms}

\* the ordering term created_at ASC (sign 1) or created_at DESC (sign -1)
\* over the rows of a table, as the comparison of each pair of rows
ByCreatedAt(rows, sign) ==
  [i \in 1 .. Len(rows) |-> [j \in 1 .. Len(rows) |->
     sign * TextCompare(rows[i].created_at, rows[j].created_at)]]

\* SQLite enforces foreign keys only on a connection that has run
\* PRAGMA foreign_keys = ON; DatabaseConnection.connect opens the database
\* and runs no statement, so the engine's default (off) is in force
ForeignKeys == FALSE

\* DELETE FROM lists WHERE id = ?, with the ON DELETE CASCADE of
\* tasks.list_id, which SQLite applies only on a connection that enforces
\* foreign keys
DeleteListRow(lists, tasks, id, fk) ==
  [lists   |-> SelectSeq(lists, LAMBDA row : row.id # id),
   tasks   |-> IF fk /\ Has(lists, id)
               THEN SelectSeq(tasks, LAMBDA row : row.list_id # id)
               ELSE tasks,
   changes |-> IF Has(lists, id) THEN 1 ELSE 0]

(* ========================= SQLListRepository =========================== *)
SQLListRepository_mapRowToList(row) ==
  [id |-> row.id, name |-> row.name, description |-> row.description,
   createdAt |-> FromISO(row.created_at), updatedAt |-> FromISO(row.updated_at)]

\* mapRowToTask of the joined rows (task_* columns)
SQLListRepository_mapRowToTask(row) ==
  LET task == [id |-> row.id, title |-> row.title,
               description |-> row.description,
               completed |-> Boolean(row.completed),
               priority |-> row.priority, listId |-> row.list_id,
               createdAt |-> FromISO(row.created_at),
               updatedAt |-> FromISO(row.updated_at)]
  IN  IF row.deadline # SqlNull
      THEN task @@ [deadline |-> FromISO(row.deadline)]
      ELSE task

\* groupTasksByList for one list row and the joined task rows, already in
\* result order
SQLListRepository_groupTasksByList(lrow, trows) ==
  LET joined == SelectSeq(trows, LAMBDA t : t.list_id = lrow.id)
  IN  SQLListRepository_mapRowToList(lrow) @@
      [tasks |-> [i \in 1 .. Len(joined) |->
                    SQLListRepository_mapRowToTask(joined[i])]]

SQLListRepository_findById(lists, id) ==
  IF Has(lists, id)
  THEN Entity(SQLListRepository_mapRowToList(lists[IndexOf(lists, id)]))
  ELSE Absent

\* create(data): now is new Date().toISOString()
SQLListRepository_create(lists, data, id, now) ==
  LET row == [id |-> id, name |-> data.name,
              description |-> OrNull(data, "description"),
              created_at |-> now, updated_at |-> now]
      inserted == Append(lists, row)
  IN  [lists |-> inserted, result |-> SQLListRepository_findById(inserted, id)]

\* findAll(): SELECT * FROM lists ORDER BY created_at DESC
SQLListRepository_findAll(lists) ==
  {Entities([i \in 1 .. Len(rows) |-> SQLListRepository_mapRowToList(rows[i])]) :
     rows \in OrderBy(lists, ByCreatedAt(lists, -1))}

\* findAllWithTasks(): ... ORDER BY l.created_at DESC, t.created_at ASC
SQLListRepository_findAllWithTasks(lists, tasks) ==
  {Entities([i \in 1 .. Len(lrows) |->
               SQLListRepository_groupTasksByList(lrows[i], trows)]) :
     lrows \in OrderBy(lists, ByCreatedAt(lists, -1)),
     trows \in OrderBy(tasks, ByCreatedAt(tasks, 1))}

\* findByIdWithTasks(id): ... WHERE l.id = ? ORDER BY t.created_at ASC
SQLListRepository_findByIdWithTasks(lists, tasks, id) ==
  IF ~Has(lists, id) THEN {Absent}
  ELSE {Entity(SQLListRepository_groupTasksByList(
                 lists[IndexOf(lists, id)], trows)) :
          trows \in OrderBy(tasks, ByCreatedAt(tasks, 1))}

\* update(id, data): now is new Date().toISOString()
SQLListRepository_update(lists, id, data, now) ==
  IF DOMAIN data \cap {"name", "description"} = {}
  THEN [lists |-> lists, result |-> SQLListRepository_findById(lists, id)]
  ELSE IF ~Has(lists, id) THEN [lists |-> lists, result |-> Absent]
  ELSE LET row == lists[IndexOf(lists, id)]
           named == [f \in DOMAIN data \cap {"name", "description"} |-> data[f]]
           updated == [lists EXCEPT ![IndexOf(lists, id)] =
                         [Spread(row, named) EXCEPT !.updated_at = now]]
       IN  [lists |-> updated, result |-> SQLListRepository_findById(updated, id)]

SQLListRepository_delete(lists, tasks, id, fk) ==
  LET run == DeleteListRow(lists, tasks, id, fk)
  IN  [lists |-> run.lists, tasks |-> run.tasks,
       result |-> Bool(run.changes > 0)]

SQLListRepository_exists(lists, id) == Bool(Has(lists, id))

(* ========================= SQLTaskRepository =========================== *)
SQLTaskRepository_mapRowToTask(row) ==
  LET task == [id |-> row.id, title |-> row.title,
               description |-> row.description,
               completed |-> Boolean(row.completed),
               priority |-> row.priority, listId |-> row.list_id,
               createdAt |-> FromISO(row.created_at),
               updatedAt |-> FromISO(row.updated_at)]
  IN  IF row.deadline # SqlNull
      THEN task @@ [deadline |-> FromISO(row.deadline)]
      ELSE task

\* data.deadline ? data.deadline.toISOString() : null
DeadlineParam(data) ==
  IF "deadline" \in DOMAIN data /\ data.deadline # NULL
  THEN ToISO(data.deadline) ELSE SqlNull

SQLTaskRepository_findById(tasks, id) ==
  IF Has(tasks, id)
  THEN Entity(SQLTaskRepository_mapRowToTask(tasks[IndexOf(tasks, id)]))
  ELSE Absent

\* create(listId, data): now is new Date().toISOString(); on a connection
\* that enforces foreign keys the INSERT fails unless the list row exists
SQLTaskRepository_create(lists, tasks, listId, data, id, now, fk) ==
  IF fk /\ ~Has(lists, listId) THEN [tasks |-> tasks, result |-> Thrown]
  ELSE LET row == [id |-> id, title |-> data.title,
                   description |-> OrNull(data, "description"),
                   completed |-> BindBool(FALSE),
                   deadline |-> DeadlineParam(data),
                   priority |-> IF "priority" \in DOMAIN data /\ data.priority # ""
                                THEN data.priority ELSE "medium",
                   list_id |-> listId, created_at |-> now, updated_at |-> now]
           inserted == Append(tasks, row)
       IN  [tasks |-> inserted, result |-> SQLTaskRepository_findById(inserted, id)]

\* the SET clause of update(id, data) applied to one row
\* an UPDATE that binds NULL for the columns the patch does not name
SQLTaskRepository_setColumns_all(row, data, now) ==
  [row EXCEPT
     !.title       = IF "title" \in DOMAIN data THEN data.title ELSE @,
     !.description = IF "description" \in DOMAIN data THEN data.description ELSE NullStr,
     !.completed   = IF "completed" \in DOMAIN data THEN BindBool(data.completed) ELSE @,
     !.deadline    = IF "deadline" \in DOMAIN data THEN DeadlineParam(data) ELSE SqlNull,
     !.priority    = IF "priority" \in DOMAIN data THEN data.priority ELSE @,
     !.updated_at  = now]

SQLTaskRepository_setColumns(row, data, now) ==
  [row EXCEPT
     !.title       = IF "title" \in DOMAIN data THEN data.title ELSE @,
     !.description = IF "description" \in DOMAIN data THEN data.description ELSE @,
     !.completed   = IF "completed" \in DOMAIN data THEN BindBool(data.completed) ELSE @,
     !.deadline    = IF "deadline" \in DOMAIN data THEN DeadlineParam(data) ELSE @,
     !.priority    = IF "priority" \in DOMAIN data THEN data.priority ELSE @,
     !.updated_at  = now]

\* update(id, data): now is new Date().toISOString()
SQLTaskRepository_update(tasks, id, data, now) ==
  IF DOMAIN data \cap {"title", "description", "completed", "deadline", "priority"} = {}
  THEN [tasks |-> tasks, result |-> SQLTaskRepository_findById(tasks, id)]
  ELSE IF ~Has(tasks, id) THEN [tasks |-> tasks, result |-> Absent]
  ELSE LET updated == [tasks EXCEPT ![IndexOf(tasks, id)] =
                         SQLTaskRepository_setColumns(@, data, now)]
       IN  [tasks |-> updated, result |-> SQLTaskRepository_findById(updated, id)]

\* DELETE FROM tasks without its WHERE clause
SQLTaskRepository_delete_all(tasks, id) ==
  [tasks |-> << >>, result |-> Bool(Has(tasks, id))]

SQLTaskRepository_delete(tasks, id) ==
  [tasks |-> SelectSeq(tasks, LAMBDA row : row.id # id),
   result |-> Bool(Has(tasks, id))]

\* toggleComplete(id): UPDATE tasks SET completed = NOT completed, updated_at = ?
SQLTaskRepository_toggleComplete(tasks, id, now) ==
  IF ~Has(tasks, id) THEN [tasks |-> tasks, result |-> Absent]
  ELSE LET updated == [tasks EXCEPT ![IndexOf(tasks, id)] =
                         [@ EXCEPT !.completed = IF @ = 0 THEN 1 ELSE 0,
                                   !.updated_at = now]]
       IN  [tasks |-> updated, result |-> SQLTaskRepository_findById(updated, id)]

SQLTaskRepository_exists(tasks, id) == Bool(Has(tasks, id))

\* ORDER BY CASE WHEN deadline IS NULL THEN 1 ELSE 0 END, deadline <order>
DeadlineOrdering(a, b, order) ==
  IF a.deadline = SqlNull /\ b.deadline = SqlNull THEN 0
  ELSE IF a.deadline = SqlNull THEN 1
  ELSE IF b.deadline = SqlNull THEN -1
  ELSE IF order = "asc" THEN TextCompare(a.deadline, b.deadline)
  ELSE -TextCompare(a.deadline, b.deadline)

SQLTaskRepository_findSortedByDeadline(tasks, order) ==
  {Entities([i \in 1 .. Len(rows) |-> SQLTaskRepository_mapRowToTask(rows[i])]) :
     rows \in OrderBy(tasks, [i \in 1 .. Len(tasks) |-> [j \in 1 .. Len(tasks) |->
                                DeadlineOrdering(tasks[i], tasks[j], order)]])}

\* the WHERE clause built by buildQuery
SQLTaskRepository_where(row, params) ==
  /\ "completed" \in DOMAIN params => row.completed = BindBool(params.completed)
  /\ "priority" \in DOMAIN params => row.priority = params.priority
  /\ "listId" \in DOMAIN params => row.list_id = params.listId

\* the ORDER BY clause built by buildQuery, for the columns that exist
SQLTaskRepository_orderBy(a, b, params) ==
  LET sortOrder == IF "sortOrder" \in DOMAIN params THEN params.sortOrder ELSE "asc"
  IN  IF "sortBy" \notin DOMAIN params
      THEN TextCompare(a.created_at, b.created_at)
      ELSE IF params.sortBy = "deadline"
      THEN DeadlineOrdering(a, b, sortOrder)
      ELSE LET comparison == BinaryCompare(a[params.sortBy], b[params.sortBy])
           IN  IF sortOrder = "asc" THEN comparison ELSE -comparison

\* buildQuery and its execution over the rows selected by the base query;
\* sortBy is spliced into the statement as a column name and the table has
\* no column named createdAt, so that statement fails to prepare
SQLTaskRepository_buildQuery(rows, params) ==
  IF "sortBy" \in DOMAIN params /\ params.sortBy = "createdAt"
  THEN {Thrown}
  ELSE LET selected == SelectSeq(rows, LAMBDA row : SQLTaskRepository_where(row, params))
       IN  {Entities([i \in 1 .. Len(sorted) |->
                        SQLTaskRepository_mapRowToTask(sorted[i])]) :
              sorted \in OrderBy(selected,
                          [i \in 1 .. Len(selected) |-> [j \in 1 .. Len(selected) |->
                             SQLTaskRepository_orderBy(selected[i], selected[j], params)]])}

SQLTaskRepository_findAll(tasks, params) ==
  SQLTaskRepository_buildQuery(tasks, params)

SQLTaskRepository_findByListId(tasks, listId, params) ==
  SQLTaskRepository_buildQuery(SelectSeq(tasks, LAMBDA row : row.list_id = listId), params)

\* findDueInRange(startDate, endDate): the bounds are bound as ISO text and
\* compared with the deadline column as text; ORDER BY deadline ASC
SQLTaskRepository_findDueInRange(tasks, startDate, endDate) ==
  LET selected == SelectSeq(tasks, LAMBDA row :
                    /\ row.deadline # SqlNull
                    /\ TextCompare(row.deadline, ToISO(startDate)) >= 0
                    /\ TextCompare(row.deadline, ToISO(endDate)) <= 0)
  IN  {Entities([i \in 1 .. Len(rows) |-> SQLTaskRepository_mapRowToTask(rows[i])]) :
         rows \in OrderBy(selected,
                    [i \in 1 .. Len(selected) |-> [j \in 1 .. Len(selected) |->
                       TextCompare(selected[i].deadline, selected[j].deadline)]])}

\* findDueThisWeek(), run at time now
SQLTaskRepository_findDueThisWeek(tasks, now) ==
  SQLTaskRepository_findDueInRange(tasks, StartOfWeek(now), EndOfWeek(now))

(* ============================ ListService ============================== *)
\* the id '' of a request that names no id
EmptyId == << >>

\* deleteList(id): stay is the outcome that touches nothing, del the outcome
\* of listRepository.delete(id), existingList that of findById(id)
ListService_deleteList(id, existingList, stay, del) ==
  IF id = EmptyId THEN [stay EXCEPT !.result = Thrown]
  ELSE IF existingList = Absent THEN [stay EXCEPT !.result = Bool(FALSE)]
  ELSE del

\* throw new ValidationError(...), throw new NotFoundError(...)
ValidationError == [kind |-> "error", name |-> "ValidationError"]
NotFoundError   == [kind |-> "error", name |-> "NotFoundError"]

\* validateCreateListData(data) returns without throwing
ListService_validateCreateListData(data) ==
  /\ ~("name" \notin DOMAIN data \/ data.name = "" \/ Len(Trim(data.name)) = 0)
  /\ ~(Len(data.name) > MaxNameLength)
  /\ ~("description" \in DOMAIN data /\ data.description \notin {"", NullStr}
        /\ Len(data.description) > MaxListDescriptionLength)

\* validateUpdateListData(data) returns without throwing
ListService_validateUpdateListData(data) ==
  /\ "name" \in DOMAIN data
       => /\ ~(data.name = "" \/ Len(Trim(data.name)) = 0)
          /\ ~(Len(data.name) > MaxNameLength)
  /\ ~("description" \in DOMAIN data /\ data.description # NullStr
        /\ Len(data.description) > MaxListDescriptionLength)

\* createList(data): stay is the outcome that touches nothing, created the
\* outcome of listRepository.create(data)
ListService_createList(data, stay, created) ==
  IF ~ListService_validateCreateListData(data)
  THEN [stay EXCEPT !.result = ValidationError]
  ELSE created

\* updateList(id, data): existingList is the outcome of findById(id),
\* updated that of listRepository.update(id, data)
ListService_updateList(id, data, existingList, stay, updated) ==
  IF id = EmptyId THEN [stay EXCEPT !.result = ValidationError]
  ELSE IF ~ListService_validateUpdateListData(data)
  THEN [stay EXCEPT !.result = ValidationError]
  ELSE IF existingList = Absent THEN [stay EXCEPT !.result = Absent]
  ELSE updated

(* ============================ TaskService ============================== *)
\* validateCreateTaskData(data) returns without throwing; now is new Date()
TaskService_validateCreateTaskData(data, now) ==
  /\ ~("title" \notin DOMAIN data \/ data.title = "" \/ Len(Trim(data.title)) = 0)
  /\ ~(Len(data.title) > MaxTitleLength)
  /\ ~("description" \in DOMAIN data /\ data.description \notin {"", NullStr}
        /\ Len(data.description) > MaxTaskDescriptionLength)
  /\ ~("priority" \in DOMAIN data /\ data.priority # ""
        /\ data.priority \notin Priorities)
  /\ ~("deadline" \in DOMAIN data /\ data.deadline # NULL /\ data.deadline < now)

\* validateUpdateTaskData(data) returns without throwing
TaskService_validateUpdateTaskData(data, now) ==
  /\ "title" \in DOMAIN data
       => /\ ~(data.title = "" \/ Len(Trim(data.title)) = 0)
          /\ ~(Len(data.title) > MaxTitleLength)
  /\ ~("description" \in DOMAIN data /\ data.description # NullStr
        /\ Len(data.description) > MaxTaskDescriptionLength)
  /\ ~("priority" \in DOMAIN data /\ data.priority \notin Priorities)
  /\ ~("deadline" \in DOMAIN data /\ data.deadline # NULL /\ data.deadline < now)

\* createTask that does not look for the list
TaskService_createTask_unchecked(listId, data, now, listExists, stay, created) ==
  IF listId = EmptyId THEN [stay EXCEPT !.result = ValidationError]
  ELSE IF ~TaskService_validateCreateTaskData(data, now)
  THEN [stay EXCEPT !.result = ValidationError]
  ELSE created

\* createTask(listId, data): listExists is the outcome of
\* listRepository.exists(listId), created that of taskRepository.create
TaskService_createTask(listId, data, now, listExists, stay, created) ==
  IF listId = EmptyId THEN [stay EXCEPT !.result = ValidationError]
  ELSE IF ~listExists THEN [stay EXCEPT !.result = NotFoundError]
  ELSE IF ~TaskService_validateCreateTaskData(data, now)
  THEN [stay EXCEPT !.result = ValidationError]
  ELSE created

\* updateTask(id, data): existingTask is the outcome of findById(id),
\* updated that of taskRepository.update(id, data)
TaskService_updateTask(id, data, now, existingTask, stay, updated) ==
  IF id = EmptyId THEN [stay EXCEPT !.result = ValidationError]
  ELSE IF ~TaskService_validateUpdateTaskData(data, now)
  THEN [stay EXCEPT !.result = ValidationError]
  ELSE IF existingTask = Absent THEN [stay EXCEPT !.result = Absent]
  ELSE updated

\* toggleTaskCompletion(id)
TaskService_toggleTaskCompletion(id, existingTask, stay, toggled) ==
  IF id = EmptyId THEN [stay EXCEPT !.result = ValidationError]
  ELSE IF existingTask = Absent THEN [stay EXCEPT !.result = Absent]
  ELSE toggled

(* ============================== inputs ================================= *)
\* {}: an object without fields (an empty patch, an empty query)
EmptyObject == [f \in {} |-> 0]

\* the objects with exactly the field f, and those where f is optional
Field(f, S)    == {[k \in {f} |-> v] : v \in S}
Optional(f, S) == {EmptyObject} \cup Field(f, S)

(* ============================== actions ================================ *)
\* Every action applies one operation to the in-memory store and to the
\* relational store and records both results in `last`: mres is the value
\* the in-memory store returns, sres the set of the values the relational
\* store may return (more than one where rows tie under ORDER BY).  The
\* relational store reads the clock when the operation starts.

\* the clock moves on between two operations
Tick ==
  /\ clock < MaxClock
  /\ clock' = clock + 1
  /\ UNCHANGED <<nextId, stores, last, others>>

\* the second new Date() of a create: the same instant, or the next one
\* where `skews` allows for a tick between the two readings
SecondReading(skews) ==
  {clock + k : k \in {k \in skews : k = 0 \/ clock + k <= MaxClock}}

\* listRepository.create(data)
CreateList(dtos, max, skews) ==
  /\ nextId.list < max
  /\ \E data \in dtos, t2 \in SecondReading(skews) :
       LET id == ListId(nextId.list + 1)
           m  == MemoryListRepository_create(memLists, data, id, clock, t2)
           s  == SQLListRepository_create(sqlLists, data, id, ToISO(clock))
       IN  /\ clock' = t2
           /\ nextId' = [nextId EXCEPT !.list = @ + 1]
           /\ memLists' = m.lists
           /\ sqlLists' = s.lists
           /\ last' = [op |-> "List.create", id |-> id, data |-> data,
                       mres |-> m.result, sres |-> {s.result}]
  /\ UNCHANGED <<memListTasks, memTasks, sqlTasks, others>>

\* listRepository.update(id, data); the in-memory store returns after its
\* timer, `delay` clock units later, when the list exists
UpdateList(patches) ==
  \E id \in KnownListIds, data \in patches, delay \in 1 .. MaxDelay :
    LET t == IF Has(memLists, id) THEN clock + delay ELSE clock
        m == MemoryListRepository_update(memLists, memListTasks, id, data, t)
        s == SQLListRepository_update(sqlLists, id, data, ToISO(clock))
    IN  /\ t <= MaxClock
        /\ clock' = t
        /\ memLists' = m.lists
        /\ sqlLists' = s.lists
        /\ last' = [op |-> "List.update", id |-> id, data |-> data,
                    mbefore |-> MemoryListRepository_findById(memLists, memListTasks, id),
                    sbefore |-> SQLListRepository_findById(sqlLists, id),
                    mres |-> m.result, sres |-> {s.result}]
        /\ UNCHANGED <<nextId, memListTasks, memTasks, sqlTasks, others>>

\* listRepository.delete(id)
DeleteList ==
  \E id \in KnownListIds :
    LET m == MemoryListRepository_delete(memLists, memListTasks, id)
        s == SQLListRepository_delete(sqlLists, sqlTasks, id, ForeignKeys)
    IN  /\ memLists' = m.lists
        /\ memListTasks' = m.tasks
        /\ sqlLists' = s.lists
        /\ sqlTasks' = s.tasks
        /\ last' = [op |-> "List.delete", id |-> id,
                    mres |-> m.result, sres |-> {s.result}]
        /\ UNCHANGED <<clock, nextId, memTasks, others>>

\* ListService.deleteList(id) over each backend
ServiceDeleteList ==
  \E id \in KnownListIds \cup {EmptyId} :
    LET m == ListService_deleteList(id,
               MemoryListRepository_findById(memLists, memListTasks, id),
               [lists |-> memLists, tasks |-> memListTasks, result |-> Absent],
               MemoryListRepository_delete(memLists, memListTasks, id))
        s == ListService_deleteList(id,
               SQLListRepository_findById(sqlLists, id),
               [lists |-> sqlLists, tasks |-> sqlTasks, result |-> Absent],
               SQLListRepository_delete(sqlLists, sqlTasks, id, ForeignKeys))
    IN  /\ memLists' = m.lists
        /\ memListTasks' = m.tasks
        /\ sqlLists' = s.lists
        /\ sqlTasks' = s.tasks
        /\ last' = [op |-> "ListService.deleteList", id |-> id,
                    mres |-> m.result, sres |-> {s.result}]
        /\ UNCHANGED <<clock, nextId, memTasks, others>>

\* the List Store's read operations; `fresh` tells that the operation before
\* a findById was the create of that very list
FindAllLists ==
  /\ last' = [op |-> "List.findAll",
              mres |-> MemoryListRepository_findAll(memLists, memListTasks),
              sres |-> SQLListRepository_findAll(sqlLists)]
  /\ UNCHANGED <<clock, nextId, stores, others>>

FindAllListsWithTasks ==
  /\ last' = [op |-> "List.findAllWithTasks",
              mres |-> MemoryListRepository_findAllWithTasks(memLists, memListTasks),
              sres |-> SQLListRepository_findAllWithTasks(sqlLists, sqlTasks)]
  /\ UNCHANGED <<clock, nextId, stores, others>>

FindListById ==
  /\ \E id \in KnownListIds :
       last' = [op |-> "List.findById", id |-> id,
                fresh |-> last.op = "List.create" /\ last.id = id,
                mres |-> MemoryListRepository_findById(memLists, memListTasks, id),
                sres |-> {SQLListRepository_findById(sqlLists, id)}]
  /\ UNCHANGED <<clock, nextId, stores, others>>

FindListByIdWithTasks ==
  /\ \E id \in KnownListIds :
       last' = [op |-> "List.findByIdWithTasks", id |-> id,
                mres |-> MemoryListRepository_findByIdWithTasks(memLists, memListTasks, id),
                sres |-> SQLListRepository_findByIdWithTasks(sqlLists, sqlTasks, id)]
  /\ UNCHANGED <<clock, nextId, stores, others>>

\* MemoryListRepository.addTask(task), as the unit tests call it: with a
\* task the Task Store holds
AddTask ==
  /\ \E task \in Range(memTasks) :
       /\ memListTasks' = MemoryListRepository_addTask(memListTasks, task)
       /\ last' = [op |-> "List.addTask", id |-> task.id]
  /\ UNCHANGED <<clock, nextId, memLists, memTasks, sqlLists, sqlTasks, others>>

\* taskRepository.create(listId, data); the store does not look the list up
CreateTask(dtos, owners, max, skews) ==
  /\ nextId.task < max
  /\ \E listId \in owners, data \in dtos, t2 \in SecondReading(skews) :
       LET id == TaskId(nextId.task + 1)
           m  == MemoryTaskRepository_create(memTasks, listId, data, id, clock, t2)
           s  == SQLTaskRepository_create(sqlLists, sqlTasks, listId, data, id,
                                          ToISO(clock), ForeignKeys)
       IN  /\ clock' = t2
           /\ nextId' = [nextId EXCEPT !.task = @ + 1]
           /\ memTasks' = m.tasks
           /\ sqlTasks' = s.tasks
           /\ last' = [op |-> "Task.create", id |-> id, listId |-> listId,
                       data |-> data, mres |-> m.result, sres |-> {s.result}]
  /\ UNCHANGED <<memLists, memListTasks, sqlLists, others>>

\* taskRepository.update(id, data)
UpdateTask(patches) ==
  \E id \in KnownTaskIds, data \in patches, delay \in 1 .. MaxDelay :
    LET t == IF Has(memTasks, id) THEN clock + delay ELSE clock
        m == MemoryTaskRepository_update(memTasks, id, data, t)
        s == SQLTaskRepository_update(sqlTasks, id, data, ToISO(clock))
    IN  /\ t <= MaxClock
        /\ clock' = t
        /\ memTasks' = m.tasks
        /\ sqlTasks' = s.tasks
        /\ last' = [op |-> "Task.update", id |-> id, data |-> data,
                    mbefore |-> MemoryTaskRepository_findById(memTasks, id),
                    sbefore |-> SQLTaskRepository_findById(sqlTasks, id),
                    mres |-> m.result, sres |-> {s.result}]
        /\ UNCHANGED <<nextId, memLists, memListTasks, sqlLists, others>>

\* taskRepository.toggleComplete(id); `twice` tells that the operation
\* before this one was a toggleComplete of the same task, and mfirst, sfirst
\* are the task as it was before the first call of such a pair
ToggleComplete ==
  \E id \in KnownTaskIds, delay \in 1 .. MaxDelay :
    LET t == IF Has(memTasks, id) THEN clock + delay ELSE clock
        m == MemoryTaskRepository_toggleComplete(memTasks, id, t)
        s == SQLTaskRepository_toggleComplete(sqlTasks, id, ToISO(clock))
        twice == last.op = "Task.toggleComplete" /\ last.id = id
        mbefore == MemoryTaskRepository_findById(memTasks, id)
        sbefore == SQLTaskRepository_findById(sqlTasks, id)
    IN  /\ t <= MaxClock
        /\ clock' = t
        /\ memTasks' = m.tasks
        /\ sqlTasks' = s.tasks
        /\ last' = [op |-> "Task.toggleComplete", id |-> id, twice |-> twice,
                    mbefore |-> mbefore, sbefore |-> sbefore,
                    mfirst |-> IF twice THEN last.mbefore ELSE mbefore,
                    sfirst |-> IF twice THEN last.sbefore ELSE sbefore,
                    mres |-> m.result, sres |-> {s.result}]
        /\ UNCHANGED <<nextId, memLists, memListTasks, sqlLists, others>>

\* taskRepository.delete(id)
DeleteTask ==
  \E id \in KnownTaskIds :
    LET m == MemoryTaskRepository_delete(memTasks, id)
        s == SQLTaskRepository_delete(sqlTasks, id)
    IN  /\ memTasks' = m.tasks
        /\ sqlTasks' = s.tasks
        /\ last' = [op |-> "Task.delete", id |-> id,
                    mres |-> m.result, sres |-> {s.result}]
        /\ UNCHANGED <<clock, nextId, memLists, memListTasks, sqlLists, others>>

\* the Task Store's read operations
FindTaskById ==
  /\ \E id \in KnownTaskIds :
       last' = [op |-> "Task.findById", id |-> id,
                mres |-> MemoryTaskRepository_findById(memTasks, id),
                sres |-> {SQLTaskRepository_findById(sqlTasks, id)}]
  /\ UNCHANGED <<clock, nextId, stores, others>>

FindAllTasks(queries) ==
  /\ \E params \in queries :
       last' = [op |-> "Task.findAll", params |-> params,
                mres |-> MemoryTaskRepository_findAll(memTasks, params),
                sres |-> SQLTaskRepository_findAll(sqlTasks, params)]
  /\ memTasks' = MemoryTaskRepository_afterSort(memTasks, last'.mres.val)
  /\ UNCHANGED <<clock, nextId, memLists, memListTasks, sqlLists, sqlTasks, others>>

\* taskRepository.findByListId(listId, params)
FindTasksByListId(owners, queries) ==
  /\ \E listId \in owners, params \in queries :
       last' = [op |-> "Task.findByListId", listId |-> listId, params |-> params,
                mres |-> MemoryTaskRepository_findByListId(memTasks, listId, params),
                sres |-> SQLTaskRepository_findByListId(sqlTasks, listId, params)]
  /\ memTasks' = MemoryTaskRepository_afterSort(memTasks, last'.mres.val)
  /\ UNCHANGED <<clock, nextId, memLists, memListTasks, sqlLists, sqlTasks, others>>

FindSortedByDeadline ==
  /\ \E order \in SortOrders :
       last' = [op |-> "Task.findSortedByDeadline", order |-> order,
                mres |-> MemoryTaskRepository_findSortedByDeadline(memTasks, order),
                sres |-> SQLTaskRepository_findSortedByDeadline(sqlTasks, order)]
  /\ memTasks' = MemoryTaskRepository_afterSort(memTasks, last'.mres.val)
  /\ UNCHANGED <<clock, nextId, memLists, memListTasks, sqlLists, sqlTasks, others>>

\* taskRepository.exists(id), listRepository.exists(id)
TaskExists ==
  /\ \E id \in KnownTaskIds :
       last' = [op |-> "Task.exists", id |-> id,
                mres |-> MemoryTaskRepository_exists(memTasks, id),
                sres |-> {SQLTaskRepository_exists(sqlTasks, id)}]
  /\ UNCHANGED <<clock, nextId, stores, others>>

ListExists ==
  /\ \E id \in KnownListIds :
       last' = [op |-> "List.exists", id |-> id,
                mres |-> MemoryListRepository_exists(memLists, id),
                sres |-> {SQLListRepository_exists(sqlLists, id)}]
  /\ UNCHANGED <<clock, nextId, stores, others>>

\* taskRepository.findDueInRange(startDate, endDate)
FindDueInRange(dates) ==
  /\ \E startDate \in dates, endDate \in dates :
       last' = [op |-> "Task.findDueInRange", startDate |-> startDate,
                endDate |-> endDate,
                mres |-> MemoryTaskRepository_findDueInRange(memTasks, startDate, endDate),
                sres |-> SQLTaskRepository_findDueInRange(sqlTasks, startDate, endDate)]
  /\ UNCHANGED <<clock, nextId, stores, others>>

\* taskRepository.findDueThisWeek()
FindDueThisWeek ==
  /\ last' = [op |-> "Task.findDueThisWeek", now |-> clock,
              mres |-> MemoryTaskRepository_findDueThisWeek(memTasks, clock),
              sres |-> SQLTaskRepository_findDueThisWeek(sqlTasks, clock)]
  /\ UNCHANGED <<clock, nextId, stores, others>>

\* listService.createList(data), of a service over either backend
ServiceCreateList(dtos, max) ==
  /\ nextId.list < max
  /\ \E data \in dtos :
       LET id == ListId(nextId.list + 1)
           m  == ListService_createList(data,
                   [lists |-> memLists, result |-> Absent],
                   MemoryListRepository_create(memLists, data, id, clock, clock))
           s  == ListService_createList(data,
                   [lists |-> sqlLists, result |-> Absent],
                   SQLListRepository_create(sqlLists, data, id, ToISO(clock)))
       IN  /\ nextId' = IF ListService_validateCreateListData(data)
                        THEN [nextId EXCEPT !.list = @ + 1] ELSE nextId
           /\ memLists' = m.lists
           /\ sqlLists' = s.lists
           /\ last' = [op |-> "ListService.createList", data |-> data,
                       mres |-> m.result, sres |-> {s.result}]
  /\ UNCHANGED <<clock, memListTasks, memTasks, sqlTasks, others>>

\* listService.updateList(id, data)
ServiceUpdateList(patches) ==
  \E id \in KnownListIds \cup {EmptyId}, data \in patches, delay \in 1 .. MaxDelay :
    LET stay(lists) == [lists |-> lists, result |-> Absent]
        waits == /\ id # EmptyId
                 /\ ListService_validateUpdateListData(data)
                 /\ Has(memLists, id)
        t == IF waits THEN clock + delay ELSE clock
        m == ListService_updateList(id, data,
               MemoryListRepository_findById(memLists, memListTasks, id),
               stay(memLists),
               MemoryListRepository_update(memLists, memListTasks, id, data, t))
        s == ListService_updateList(id, data,
               SQLListRepository_findById(sqlLists, id),
               stay(sqlLists),
               SQLListRepository_update(sqlLists, id, data, ToISO(clock)))
    IN  /\ t <= MaxClock
        /\ clock' = t
        /\ memLists' = m.lists
        /\ sqlLists' = s.lists
        /\ last' = [op |-> "ListService.updateList", id |-> id, data |-> data,
                    mres |-> m.result, sres |-> {s.result}]
        /\ UNCHANGED <<nextId, memListTasks, memTasks, sqlTasks, others>>

\* taskService.createTask(listId, data)
ServiceCreateTask(dtos, max) ==
  /\ nextId.task < max
  /\ \E listId \in KnownListIds \cup {EmptyId}, data \in dtos :
       LET id == TaskId(nextId.task + 1)
           stay(tasks) == [tasks |-> tasks, result |-> Absent]
           m  == TaskService_createTask(listId, data, clock,
                   MemoryListRepository_exists(memLists, listId).val,
                   stay(memTasks),
                   MemoryTaskRepository_create(memTasks, listId, data, id, clock, clock))
           s  == TaskService_createTask(listId, data, clock,
                   SQLListRepository_exists(sqlLists, listId).val,
                   stay(sqlTasks),
                   SQLTaskRepository_create(sqlLists, sqlTasks, listId, data, id,
                                            ToISO(clock), ForeignKeys))
       IN  /\ nextId' = IF m.tasks # memTasks \/ s.tasks # sqlTasks
                        THEN [nextId EXCEPT !.task = @ + 1] ELSE nextId
           /\ memTasks' = m.tasks
           /\ sqlTasks' = s.tasks
           /\ last' = [op |-> "TaskService.createTask", listId |-> listId,
                       data |-> data, now |-> clock,
                       mres |-> m.result, sres |-> {s.result}]
  /\ UNCHANGED <<clock, memLists, memListTasks, sqlLists, others>>

\* taskService.updateTask(id, data)
ServiceUpdateTask(patches) ==
  \E id \in KnownTaskIds \cup {EmptyId}, data \in patches, delay \in 1 .. MaxDelay :
    LET stay(tasks) == [tasks |-> tasks, result |-> Absent]
        waits == /\ id # EmptyId
                 /\ TaskService_validateUpdateTaskData(data, clock)
                 /\ Has(memTasks, id)
        t == IF waits THEN clock + delay ELSE clock
        m == TaskService_updateTask(id, data, clock,
               MemoryTaskRepository_findById(memTasks, id),
               stay(memTasks),
               MemoryTaskRepository_update(memTasks, id, data, t))
        s == TaskService_updateTask(id, data, clock,
               SQLTaskRepository_findById(sqlTasks, id),
               stay(sqlTasks),
               SQLTaskRepository_update(sqlTasks, id, data, ToISO(clock)))
    IN  /\ t <= MaxClock
        /\ clock' = t
        /\ memTasks' = m.tasks
        /\ sqlTasks' = s.tasks
        /\ last' = [op |-> "TaskService.updateTask", id |-> id, data |-> data,
                    now |-> clock, mres |-> m.result, sres |-> {s.result}]
        /\ UNCHANGED <<nextId, memLists, memListTasks, sqlLists, others>>

\* taskService.toggleTaskCompletion(id)
ServiceToggleTask ==
  \E id \in KnownTaskIds \cup {EmptyId}, delay \in 1 .. MaxDelay :
    LET stay(tasks) == [tasks |-> tasks, result |-> Absent]
        t == IF id # EmptyId /\ Has(memTasks, id) THEN clock + delay ELSE clock
        m == TaskService_toggleTaskCompletion(id,
               MemoryTaskRepository_findById(memTasks, id),
               stay(memTasks),
               MemoryTaskRepository_toggleComplete(memTasks, id, t))
        s == TaskService_toggleTaskCompletion(id,
               SQLTaskRepository_findById(sqlTasks, id),
               stay(sqlTasks),
               SQLTaskRepository_toggleComplete(sqlTasks, id, ToISO(clock)))
    IN  /\ t <= MaxClock
        /\ clock' = t
        /\ memTasks' = m.tasks
        /\ sqlTasks' = s.tasks
        /\ last' = [op |-> "TaskService.toggleTaskCompletion", id |-> id,
                    mres |-> m.result, sres |-> {s.result}]
        /\ UNCHANGED <<nextId, memLists, memListTasks, sqlLists, others>>

(* -------------------------- MigrationManager --------------------------- *)
\* the name of the n-th migration file: a zero-padded number, two digits
\* standing for the characters of the name
FileName(n) == <<n \div 10, n % 10>>

\* fs.readdirSync(...).filter(...).sort(): the names in the order of their
\* UTF-16 code units, whatever order the directory lists them in
MigrationManager_getMigrationFiles ==
  LET names == [n \in 1 .. MigrationFiles |-> FileName(MigrationFiles + 1 - n)]
  IN  Sort(names, [i \in 1 .. MigrationFiles |-> [j \in 1 .. MigrationFiles |->
                     TextCompare(names[i], names[j])]])

\* the migrations up() finds pending: those of getMigrationFiles() that
\* getExecutedMigrations() does not include
MigrationManager_pending(rows) ==
  SelectSeq(MigrationManager_getMigrationFiles, LAMBDA f : f \notin Range(rows))

\* up(), where `fail` tells the statement that fails, if any: the
\* executeMultiple ("sql") or the INSERT INTO migrations ("record") of the
\* at-th pending migration; the run stops there
MigrationManager_up(rows, log, fail) ==
  LET pending  == MigrationManager_pending(rows)
      n        == Len(pending)
      executed == IF fail.step = "sql" THEN fail.at - 1
                  ELSE IF fail.step = "record" THEN fail.at ELSE n
      recorded == IF fail.step = "none" THEN n ELSE fail.at - 1
  IN  [migrations |-> rows \o SubSeq(pending, 1, recorded),
       schemaLog  |-> log \o SubSeq(pending, 1, executed),
       result     |-> IF fail.step = "none" THEN Absent ELSE Thrown]

\* down(): DELETE FROM migrations WHERE filename = the last executed one;
\* no statement undoes what the migration's SQL did
MigrationManager_down(rows) ==
  IF rows = << >> THEN rows
  ELSE SelectSeq(rows, LAMBDA f : f # rows[Len(rows)])

\* a run of up()
Up ==
  /\ \E fail \in {[step |-> "none", at |-> 0]}
                  \cup {[step |-> st, at |-> k] :
                          st \in {"sql", "record"},
                          k \in 1 .. Len(MigrationManager_pending(migrations))} :
       LET run == MigrationManager_up(migrations, schemaLog, fail)
       IN  /\ Len(run.schemaLog) <= MaxExecutions
           /\ migrations' = run.migrations
           /\ schemaLog' = run.schemaLog
  /\ UNCHANGED <<storeVars, calls, factoryVars, connectionVars>>

\* a run of down()
Down ==
  /\ migrations' = MigrationManager_down(migrations)
  /\ UNCHANGED <<storeVars, calls, schemaLog, factoryVars, connectionVars>>

(* -------------------------- RepositoryFactory -------------------------- *)
\* what process.env.NODE_ENV may hold when the configuration is loaded; ""
\* stands for a variable that is not set
NodeEnvs == {"", "test", "production"}

\* the arguments of a getter: no type (""), or one of the RepositoryType
\* values, or a string that is none of them
RepositoryTypes == {"", "memory", "sql", "other"}

\* loadEnvironmentConfig(): NODE_ENV: process.env.NODE_ENV || "development"
LoadEnvironmentConfig ==
  /\ env = Null
  /\ \E nodeEnv \in NodeEnvs :
       env' = [NODE_ENV |-> IF nodeEnv = "" THEN "development" ELSE nodeEnv]
  /\ UNCHANGED <<storeVars, calls, migrationVars, listRepository,
                 taskRepository, instances, connectionVars>>

RepositoryFactory_getDefaultRepositoryType ==
  IF env.NODE_ENV = "test" THEN "memory" ELSE "sql"

\* createListRepository(type), createTaskRepository(type): a new object of
\* the class the type names; any other type throws
RepositoryFactory_createRepository(type) ==
  IF type \in {"memory", "sql"}
  THEN [type |-> type, instance |-> instances + 1]
  ELSE Thrown

\* getListRepository(type?)
GetListRepository ==
  /\ env # Null
  /\ instances < MaxInstances
  /\ \E type \in RepositoryTypes :
       LET repositoryType == IF type # "" THEN type
                             ELSE RepositoryFactory_getDefaultRepositoryType
           created == RepositoryFactory_createRepository(repositoryType)
       IN  IF listRepository # Null
           THEN /\ last' = [op |-> "Factory.getListRepository", type |-> type,
                            result |-> listRepository]
                /\ UNCHANGED <<listRepository, instances>>
           ELSE IF created = Thrown
           THEN /\ last' = [op |-> "Factory.getListRepository", type |-> type,
                            result |-> Thrown]
                /\ UNCHANGED <<listRepository, instances>>
           ELSE /\ listRepository' = created
                /\ instances' = instances + 1
                /\ last' = [op |-> "Factory.getListRepository", type |-> type,
                            result |-> created]
  /\ UNCHANGED <<clock, nextId, stores, calls, migrationVars, taskRepository,
                 env, connectionVars>>

\* getTaskRepository(type?)
GetTaskRepository ==
  /\ env # Null
  /\ instances < MaxInstances
  /\ \E type \in RepositoryTypes :
       LET repositoryType == IF type # "" THEN type
                             ELSE RepositoryFactory_getDefaultRepositoryType
           created == RepositoryFactory_createRepository(repositoryType)
       IN  IF taskRepository # Null
           THEN /\ last' = [op |-> "Factory.getTaskRepository", type |-> type,
                            result |-> taskRepository]
                /\ UNCHANGED <<taskRepository, instances>>
           ELSE IF created = Thrown
           THEN /\ last' = [op |-> "Factory.getTaskRepository", type |-> type,
                            result |-> Thrown]
                /\ UNCHANGED <<taskRepository, instances>>
           ELSE /\ taskRepository' = created
                /\ instances' = instances + 1
                /\ last' = [op |-> "Factory.getTaskRepository", type |-> type,
                            result |-> created]
  /\ UNCHANGED <<clock, nextId, stores, calls, migrationVars, listRepository,
                 env, connectionVars>>

\* reset()
Reset ==
  /\ env # Null
  /\ listRepository' = Null
  /\ taskRepository' = Null
  /\ last' = [op |-> "Factory.reset"]
  /\ UNCHANGED <<clock, nextId, stores, calls, migrationVars, instances, env,
                 connectionVars>>

(* -------------------------- DatabaseConnection ------------------------- *)
\* the methods that start with this.getConnection()
ConnectionMethods ==
  {"getConnection", "query", "queryOne", "execute", "executeMultiple"}

\* new Database(dbPath, callback): a new handle, before sqlite3 has opened
\* the file
NewDatabase == [handle |-> handles + 1, state |-> "opening", closing |-> FALSE]

\* connect(): with a handle in this.db it resolves with that handle at
\* once; else it stores a new handle and stays pending until the callback
Connect ==
  /\ IF db # Null
     THEN /\ connected' = TRUE
          /\ last' = [op |-> "Connection.connect", result |-> Entity(db)]
          /\ UNCHANGED <<db, handles>>
     ELSE /\ handles < MaxHandles
          /\ db' = NewDatabase
          /\ handles' = handles + 1
          /\ last' = [op |-> "Connection.connect", result |-> Absent]
          /\ UNCHANGED connected
  /\ UNCHANGED <<clock, nextId, stores, calls, migrationVars, factoryVars>>

\* the callback of new Database without an error: connect() resolves
Opened ==
  /\ db # Null
  /\ db.state = "opening"
  /\ db' = [db EXCEPT !.state = "open"]
  /\ connected' = TRUE
  /\ last' = [op |-> "Connection.opened", result |-> Entity(db')]
  /\ UNCHANGED <<clock, nextId, stores, calls, migrationVars, factoryVars,
                 handles>>

\* the callback of new Database with an error: connect() rejects, this.db
\* keeps the handle
OpenFailed ==
  /\ db # Null
  /\ db.state = "opening"
  /\ db' = [db EXCEPT !.state = "failed"]
  /\ last' = [op |-> "Connection.opened", result |-> Thrown]
  /\ UNCHANGED <<clock, nextId, stores, calls, migrationVars, factoryVars,
                 handles, connected>>

\* close(): without a handle it resolves at once; else it asks sqlite3 to
\* close the handle and stays pending until the callback
Close ==
  /\ IF db = Null
     THEN UNCHANGED db
     ELSE /\ ~db.closing
          /\ db' = [db EXCEPT !.closing = TRUE]
  /\ last' = [op |-> "Connection.close", result |-> Absent]
  /\ UNCHANGED <<clock, nextId, stores, calls, migrationVars, factoryVars,
                 handles, connected>>

\* the callback of db.close without an error, once the handle has been
\* opened: this.db = null and close() resolves
Closed ==
  /\ db # Null
  /\ db.closing
  /\ db.state = "open"
  /\ db' = Null
  /\ connected' = FALSE
  /\ last' = [op |-> "Connection.closed", result |-> Absent]
  /\ UNCHANGED <<clock, nextId, stores, calls, migrationVars, factoryVars,
                 handles>>

\* the callback of db.close with an error: close() rejects, this.db keeps
\* the handle
CloseFailed ==
  /\ db # Null
  /\ db.closing
  /\ db.state # "opening"
  /\ db' = [db EXCEPT !.closing = FALSE]
  /\ last' = [op |-> "Connection.closed", result |-> Thrown]
  /\ UNCHANGED <<clock, nextId, stores, calls, migrationVars, factoryVars,
                 handles, connected>>

\* getConnection(), and the first statement of query, queryOne, execute
\* and executeMultiple
GetConnection ==
  /\ \E method \in ConnectionMethods :
       last' = [op |-> method,
                result |-> IF db = Null THEN Thrown ELSE Entity(db)]
  /\ UNCHANGED <<clock, nextId, stores, calls, migrationVars, factoryVars,
                 connectionVars>>

(* ----------------------- calls in flight together --------------------- *)
\* A call runs up to its first await when it is issued and goes on when the
\* awaited promise settles; between the two any other call may be issued or
\* go on.  `calls` holds, in issue order, the calls issued since the stores
\* were last at rest: pc tells where a call waits, and a call that has
\* returned keeps its result.
AllReturned == \A i \in 1 .. Len(calls) : calls[i].pc = "returned"

\* the calls after one more is issued; issued on the stores at rest it is the
\* first of a new round
Issued(call) == IF AllReturned THEN <<call>> ELSE Append(calls, call)

\* taskService.createTask(listId, data) up to
\* `await this.listRepository.exists(listId)`
IssueCreateTask(dtos, max) ==
  /\ Len(Issued(EmptyObject)) <= max
  /\ \E listId \in KnownListIds, data \in dtos :
       calls' = Issued([op |-> "TaskService.createTask", pc |-> "exists",
                        listId |-> listId, data |-> data,
                        mexists |-> MemoryListRepository_exists(memLists, listId).val,
                        sexists |-> SQLListRepository_exists(sqlLists, listId).val])
  /\ UNCHANGED <<storeVars, migrationVars, factoryVars, connectionVars>>

\* createTask from the answer of exists to its return: the list is not
\* looked up again
ResumeCreateTask(max) ==
  /\ nextId.task < max
  /\ \E i \in 1 .. Len(calls) :
       /\ calls[i].op = "TaskService.createTask"
       /\ calls[i].pc = "exists"
       /\ LET call == calls[i]
              id == TaskId(nextId.task + 1)
              stay(tasks) == [tasks |-> tasks, result |-> Absent]
              m  == TaskService_createTask(call.listId, call.data, clock,
                      call.mexists, stay(memTasks),
                      MemoryTaskRepository_create(memTasks, call.listId, call.data,
                                                  id, clock, clock))
              s  == TaskService_createTask(call.listId, call.data, clock,
                      call.sexists, stay(sqlTasks),
                      SQLTaskRepository_create(sqlLists, sqlTasks, call.listId,
                                               call.data, id, ToISO(clock), ForeignKeys))
          IN  /\ nextId' = IF m.tasks # memTasks \/ s.tasks # sqlTasks
                           THEN [nextId EXCEPT !.task = @ + 1] ELSE nextId
              /\ memTasks' = m.tasks
              /\ sqlTasks' = s.tasks
              /\ calls' = [calls EXCEPT ![i] =
                             [op |-> call.op, pc |-> "returned",
                              listId |-> call.listId,
                              mres |-> m.result, sres |-> s.result,
                              mstored |-> Has(memLists, call.listId),
                              sstored |-> Has(sqlLists, call.listId)]]
  /\ UNCHANGED <<clock, memLists, memListTasks, sqlLists, last,
                 migrationVars, factoryVars, connectionVars>>

\* listService.deleteList(id) up to `await this.listRepository.findById(id)`
IssueDeleteList(max) ==
  /\ Len(Issued(EmptyObject)) <= max
  /\ \E id \in KnownListIds :
       calls' = Issued([op |-> "ListService.deleteList", pc |-> "findById",
                        id |-> id,
                        mexisting |-> MemoryListRepository_findById(memLists, memListTasks, id),
                        sexisting |-> SQLListRepository_findById(sqlLists, id)])
  /\ UNCHANGED <<storeVars, migrationVars, factoryVars, connectionVars>>

\* deleteList from the answer of findById to its return
ResumeDeleteList ==
  /\ \E i \in 1 .. Len(calls) :
       /\ calls[i].op = "ListService.deleteList"
       /\ calls[i].pc = "findById"
       /\ LET call == calls[i]
              m == ListService_deleteList(call.id, call.mexisting,
                     [lists |-> memLists, tasks |-> memListTasks, result |-> Absent],
                     MemoryListRepository_delete(memLists, memListTasks, call.id))
              s == ListService_deleteList(call.id, call.sexisting,
                     [lists |-> sqlLists, tasks |-> sqlTasks, result |-> Absent],
                     SQLListRepository_delete(sqlLists, sqlTasks, call.id, ForeignKeys))
          IN  /\ memLists' = m.lists
              /\ memListTasks' = m.tasks
              /\ sqlLists' = s.lists
              /\ sqlTasks' = s.tasks
              /\ calls' = [calls EXCEPT ![i] =
                             [op |-> call.op, pc |-> "returned", id |-> call.id,
                              mres |-> m.result, sres |-> s.result]]
  /\ UNCHANGED <<clock, nextId, memTasks, last,
                 migrationVars, factoryVars, connectionVars>>

\* The in-memory Task Store's update and toggleComplete read the task, set
\* a 10 ms timer and go on when it fires; timers of one length fire in the
\* order they were set, so the call that goes on is the first one waiting.
FirstWaiting ==
  CHOOSE i \in 1 .. Len(calls) + 1 :
    /\ i <= Len(calls) => calls[i].pc = "timer"
    /\ \A j \in 1 .. i - 1 : calls[j].pc # "timer"

\* the calls on the task `id` that wait for their timer
Waiting(id) == {i \in 1 .. Len(calls) : calls[i].pc = "timer" /\ calls[i].id = id}

\* taskRepository.update(id, data) up to its timer
IssueUpdateTask(patches, max) ==
  /\ Len(Issued(EmptyObject)) <= max
  /\ \E id \in KnownTaskIds, data \in patches :
       calls' = Issued(
         IF Has(memTasks, id)
         THEN [op |-> "Task.update", pc |-> "timer", id |-> id, data |-> data,
               task |-> memTasks[IndexOf(memTasks, id)]]
         ELSE [op |-> "Task.update", pc |-> "returned", id |-> id, data |-> data,
               task |-> Absent, mres |-> Absent])
  /\ UNCHANGED <<storeVars, migrationVars, factoryVars, connectionVars>>

\* update from its timer to its return
ResumeUpdateTask ==
  /\ FirstWaiting <= Len(calls)
  /\ calls[FirstWaiting].op = "Task.update"
  /\ \E delay \in 1 .. MaxDelay :
       LET call == calls[FirstWaiting]
           m == MemoryTaskRepository_updateAfterTimer(memTasks, call.task, call.data,
                                                      clock + delay)
       IN  /\ clock + delay <= MaxClock
           /\ clock' = clock + delay
           /\ memTasks' = m.tasks
           /\ calls' = [calls EXCEPT ![FirstWaiting] =
                          [call EXCEPT !.pc = "returned"] @@ [mres |-> m.result]]
  /\ UNCHANGED <<nextId, memLists, memListTasks, sqlLists, sqlTasks, last,
                 migrationVars, factoryVars, connectionVars>>

\* taskRepository.toggleComplete(id) up to its timer
IssueToggleComplete(max) ==
  /\ Len(Issued(EmptyObject)) <= max
  /\ \E id \in KnownTaskIds :
       calls' = Issued(
         IF Has(memTasks, id)
         THEN [op |-> "Task.toggleComplete", pc |-> "timer", id |-> id,
               task |-> memTasks[IndexOf(memTasks, id)]]
         ELSE [op |-> "Task.toggleComplete", pc |-> "returned", id |-> id,
               task |-> Absent, mres |-> Absent])
  /\ UNCHANGED <<storeVars, migrationVars, factoryVars, connectionVars>>

\* toggleComplete from its timer to its return
ResumeToggleComplete ==
  /\ FirstWaiting <= Len(calls)
  /\ calls[FirstWaiting].op = "Task.toggleComplete"
  /\ \E delay \in 1 .. MaxDelay :
       LET call == calls[FirstWaiting]
           m == MemoryTaskRepository_toggleCompleteAfterTimer(memTasks, call.task,
                                                              clock + delay)
       IN  /\ clock + delay <= MaxClock
           /\ clock' = clock + delay
           /\ memTasks' = m.tasks
           /\ calls' = [calls EXCEPT ![FirstWaiting] =
                          [call EXCEPT !.pc = "returned"] @@ [mres |-> m.result]]
  /\ UNCHANGED <<nextId, memLists, memListTasks, sqlLists, sqlTasks, last,
                 migrationVars, factoryVars, connectionVars>>

\* taskRepository.delete(id) of the in-memory store: it awaits nothing, so it
\* has run when it is issued; `waiting` are the calls on the same task that
\* wait for their timer at that moment
IssueDeleteTask(max) ==
  /\ Len(Issued(EmptyObject)) <= max
  /\ \E id \in KnownTaskIds :
       LET m == MemoryTaskRepository_delete(memTasks, id)
       IN  /\ memTasks' = m.tasks
           /\ calls' = Issued([op |-> "Task.delete", pc |-> "returned", id |-> id,
                               waiting |-> Waiting(id), mres |-> m.result])
  /\ UNCHANGED <<clock, nextId, memLists, memListTasks, sqlLists, sqlTasks, last,
                 migrationVars, factoryVars, connectionVars>>

(* =========================== specifications ============================ *)
\* both stores are empty after construction
\* no call in flight, no migration run, no repository handed out, no
\* database opened
AtRest ==
  /\ calls = << >>
  /\ migrations = << >>
  /\ schemaLog = << >>
  /\ listRepository = Null
  /\ taskRepository = Null
  /\ instances = 0
  /\ env = Null
  /\ db = Null
  /\ handles = 0
  /\ connected = FALSE

Init ==
  /\ clock = 0
  /\ nextId = [list |-> 0, task |-> 0]
  /\ memLists = << >>
  /\ memListTasks = << >>
  /\ memTasks = << >>
  /\ sqlLists = << >>
  /\ sqlTasks = << >>
  /\ last = [op |-> "none"]
  /\ AtRest

\* Spec: the life cycle of lists and of the tasks they own
LifeListDtos    == Field("name", {"n1"})
LifeListPatches == {EmptyObject, [name |-> "n2"]}
LifeTaskDtos    == Field("title", {"a"})

Next ==
  \/ Tick
  \/ CreateList(LifeListDtos, MaxLists, {0, 1})
  \/ UpdateList(LifeListPatches)
  \/ DeleteList
  \/ ServiceDeleteList
  \/ FindAllLists
  \/ FindAllListsWithTasks
  \/ FindListById
  \/ FindListByIdWithTasks
  \/ AddTask
  \/ CreateTask(LifeTaskDtos, KnownListIds, FewTasks, {0})
  \/ DeleteTask
  \/ FindTaskById

Spec == Init /\ [][Next]_vars

\* SpecUpdate: updates and toggles of the lists and tasks created, and the
\* clock; the stores do not look a task's owner up, so a task needs no list
UpdateTaskPatches ==
  {EmptyObject} \cup Field("title", {"B"}) \cup Field("completed", {TRUE})
  \cup Field("deadline", {1})

NextUpdate ==
  \/ Tick
  \/ CreateList(LifeListDtos, FewCreates - nextId.task, {0, 1})
  \/ UpdateList(LifeListPatches)
  \/ CreateTask(LifeTaskDtos, KnownListIds, FewCreates - nextId.list, {0, 1})
  \/ UpdateTask(UpdateTaskPatches)
  \/ ToggleComplete
  \/ DeleteTask

SpecUpdate == Init /\ [][NextUpdate]_vars

\* SpecQuery: tasks that differ in the sort keys, and the sorted reads
QueryTaskDtos ==
  {t @@ x : t \in Field("title", {"a"}),
            x \in {EmptyObject} \cup Field("deadline", {1})
                  \cup Field("priority", {"high"})}
QueryTaskPatches == Field("deadline", {2})
SortParams ==
  {sb @@ so : sb \in Field("sortBy", SortFields),
              so \in Field("sortOrder", SortOrders)}

NextQuery ==
  \/ CreateTask(QueryTaskDtos, KnownListIds, MaxTasks, {0})
  \/ UpdateTask(QueryTaskPatches)
  \/ DeleteTask
  \/ FindAllTasks(SortParams)
  \/ FindSortedByDeadline

SpecQuery == Init /\ [][NextQuery]_vars

\* SpecFilter: tasks that differ in completed, priority and owner, one of
\* them toggled, and the filtered reads
FilterTaskDtos ==
  {t @@ p : t \in Field("title", {"a"}), p \in Optional("priority", {"high"})}
\* list ids a caller names; neither task store looks them up
FilterOwners == {ListId(1), ListId(2)}
FilterParams ==
  {c @@ p @@ l :
     c \in Optional("completed", BOOLEAN),
     p \in Optional("priority", {"high"}),
     l \in Optional("listId", FilterOwners)}
    \cup {[completed |-> FALSE, sortBy |-> s] : s \in {"priority", "createdAt"}}

\* the filters findByListId is given on top of its listId
ListFilterParams ==
  {c @@ p : c \in Optional("completed", {FALSE}), p \in Optional("priority", {"high"})}

NextFilter ==
  \/ CreateTask(FilterTaskDtos, FilterOwners, FilterTasks, {0})
  \/ (clock = 0 /\ ToggleComplete)
  \/ FindAllTasks(FilterParams)
  \/ FindTasksByListId(FilterOwners, ListFilterParams)

SpecFilter == Init /\ [][NextFilter]_vars

\* SpecDue: tasks with and without a deadline, deadlines set and cleared,
\* and the range read
DueTaskDtos ==
  {t @@ d : t \in Field("title", {"a"}), d \in Optional("deadline", {1, 2})}
DueTaskPatches == Field("deadline", {NULL, 3})
RangeDates == 0 .. 3

NextDue ==
  \/ CreateTask(DueTaskDtos, {ListId(1)}, DueTasks, {0})
  \/ UpdateTask(DueTaskPatches)
  \/ DeleteTask
  \/ FindDueInRange(RangeDates)

SpecDue == Init /\ [][NextDue]_vars

\* SpecWeek: the program starts at any time of a week, a list and tasks
\* under it are created, due in one day or without a deadline, and the
\* tasks of the week are read at once
InitWeek ==
  /\ clock \in 0 .. DaysPerWeek * TicksPerDay - 1
  /\ nextId = [list |-> 0, task |-> 0]
  /\ memLists = << >>
  /\ memListTasks = << >>
  /\ memTasks = << >>
  /\ sqlLists = << >>
  /\ sqlTasks = << >>
  /\ last = [op |-> "none"]
  /\ AtRest

InOneDay == clock + TicksPerDay
WeekTaskDtos ==
  {t @@ d : t \in Field("title", {"a"}), d \in Optional("deadline", {InOneDay})}

NextWeek ==
  \/ CreateList(LifeListDtos, WeekCreates, {0})
  \/ CreateTask(WeekTaskDtos, {ListId(n) : n \in 1 .. nextId.list}, WeekCreates, {0})
  \/ FindDueThisWeek

SpecWeek == InitWeek /\ [][NextWeek]_vars

\* SpecAbsent: updates and toggles, through the stores and through the
\* services, of ids that are stored and of ids that are not
AbsentTaskPatches == {EmptyObject} \cup Field("title", {"B"})

NextAbsent ==
  \/ CreateList(LifeListDtos, AbsentCreates - nextId.task, {0})
  \/ CreateTask(LifeTaskDtos, KnownListIds, AbsentCreates - nextId.list, {0})
  \/ UpdateList(LifeListPatches)
  \/ UpdateTask(AbsentTaskPatches)
  \/ ToggleComplete
  \/ ServiceUpdateList(LifeListPatches)
  \/ ServiceUpdateTask(AbsentTaskPatches)
  \/ ServiceToggleTask

SpecAbsent == Init /\ [][NextAbsent]_vars

\* SpecGuard: lists created through the service and through the List Store
\* itself, with and without a name, deleted again, and tasks created through
\* the service under the ids of stored lists, of no list, and under no id
DirectListDtos == Field("name", {"n1", "", Blank})
GuardTaskDtos == Field("title", {"a", ""})

NextGuard ==
  \/ CreateList(DirectListDtos, GuardCreates, {0})
  \/ ServiceCreateList(DirectListDtos, GuardCreates)
  \/ ServiceCreateTask(GuardTaskDtos, GuardCreates)
  \/ ServiceDeleteList

SpecGuard == Init /\ [][NextGuard]_vars

\* SpecService: the calls of the two services with inputs that keep and
\* inputs that break each field rule
ServiceListDtos ==
  Field("name", {"n1", "", Blank, Text255, Text256})
    \cup {[name |-> "n1", description |-> d] : d \in {Text1000, Text1001}}
ServiceListPatches ==
  {EmptyObject} \cup Field("name", {"n2", "", Blank, Text256})
    \cup Field("description", {NullStr, Text1001})
ServiceTaskDtos ==
  Field("title", {"a", "", Blank, Text256})
    \cup {[title |-> "a"] @@ x :
            x \in Field("description", {Text1001})
                    \cup Field("priority", {"high", "urgent", ""})
                    \cup Field("deadline", {0, MaxClock})}
ServiceTaskPatches ==
  Field("title", {"B", "", Blank, Text256})
    \cup Field("description", {Text1001})
    \cup Field("priority", {"low", "urgent", ""})
    \cup Field("deadline", {0, MaxClock, NULL})

NextService ==
  \/ ServiceCreateList(ServiceListDtos, ServiceCreates - nextId.task)
  \/ ServiceUpdateList(ServiceListPatches)
  \/ ServiceCreateTask(ServiceTaskDtos, ServiceCreates - nextId.list)
  \/ ServiceUpdateTask(ServiceTaskPatches)

SpecService == Init /\ [][NextService]_vars

\* SpecPatch: a list, or a task with every optional field set, and patches
\* of no field, of each single field, and of two fields
PatchTaskDtos ==
  {[title |-> "a", description |-> "d", deadline |-> 1, priority |-> "high"]}
PatchListPatches ==
  {n @@ d : n \in Optional("name", {"n2"}), d \in Optional("description", Descriptions)}
PatchTaskPatches ==
  {EmptyObject} \cup Field("title", {"B"}) \cup Field("description", {NullStr})
    \cup Field("completed", BOOLEAN) \cup Field("deadline", {2, NULL})
    \cup Field("priority", {"low"})
    \cup {[title |-> "B", completed |-> TRUE], [deadline |-> NULL, priority |-> "low"]}

NextPatch ==
  \/ CreateList(LifeListDtos, PatchCreates - nextId.task, {0})
  \/ CreateTask(PatchTaskDtos, KnownListIds, PatchCreates - nextId.list, {0})
  \/ UpdateList(PatchListPatches)
  \/ UpdateTask(PatchTaskPatches)

SpecPatch == Init /\ [][NextPatch]_vars

\* SpecDelete: lists and tasks created and deleted, by ids that are stored
\* and by ids that are not; addTask feeds the List Store's own map
NextDelete ==
  \/ CreateList(LifeListDtos, DeleteCreates, {0})
  \/ CreateTask(LifeTaskDtos, {ListId(n) : n \in 1 .. nextId.list}, DeleteCreates, {0})
  \/ AddTask
  \/ DeleteList
  \/ DeleteTask
SpecDelete == Init /\ [][NextDelete]_vars

\* SpecRace: createTask and deleteList calls of the services in flight
\* together, on lists that exist and on ids of no list
NextRace ==
  \/ CreateList(LifeListDtos, RaceCreates, {0})
  \/ IssueCreateTask(LifeTaskDtos, RaceCalls)
  \/ ResumeCreateTask(RaceCreates)
  \/ IssueDeleteList(RaceCalls)
  \/ ResumeDeleteList
SpecRace == Init /\ [][NextRace]_vars

\* SpecTimer: update, toggleComplete and delete calls of the in-memory Task
\* Store issued without awaiting the one before
TimerPatches == {[title |-> "B"], [priority |-> "high"]}
NextTimer ==
  \/ CreateTask(LifeTaskDtos, {ListId(1)}, TimerTasks, {0})
  \/ IssueUpdateTask(TimerPatches, TimerCalls)
  \/ ResumeUpdateTask
  \/ IssueToggleComplete(TimerCalls)
  \/ ResumeToggleComplete
  \/ IssueDeleteTask(TimerCalls)
SpecTimer == Init /\ [][NextTimer]_vars

\* SpecRead: every read operation of the two stores, on tasks whose
\* deadlines and titles are not in the order of their creation
ReadTaskDtos ==
  {[title |-> "B", deadline |-> 2], [title |-> "a", deadline |-> 1]}
ReadParams ==
  {EmptyObject, [completed |-> FALSE], [priority |-> "medium"],
   [sortBy |-> "title"], [sortBy |-> "deadline", sortOrder |-> "desc"],
   [completed |-> FALSE, sortBy |-> "title", sortOrder |-> "asc"]}
NextRead ==
  \/ CreateList(LifeListDtos, ReadCreates - nextId.task, {0})
  \/ CreateTask(ReadTaskDtos, {ListId(1)}, ReadCreates - nextId.list, {0})
  \/ FindAllLists
  \/ FindAllListsWithTasks
  \/ FindListById
  \/ FindListByIdWithTasks
  \/ ListExists
  \/ FindAllTasks(ReadParams)
  \/ FindTasksByListId({ListId(1)}, ReadParams)
  \/ FindTaskById
  \/ FindDueInRange({1, 2})
  \/ FindDueThisWeek
  \/ FindSortedByDeadline
  \/ TaskExists
SpecRead == Init /\ [][NextRead]_vars

\* SpecConnection: connect() and close() calls, the callbacks of sqlite3,
\* and the methods that need the connection, in any order
NextConnection ==
  Connect \/ Opened \/ OpenFailed \/ Close \/ Closed \/ CloseFailed
    \/ GetConnection
SpecConnection == Init /\ [][NextConnection]_vars

\* SpecFactory: the configuration is loaded, then callers ask the factory
\* for repositories and reset it
NextFactory ==
  LoadEnvironmentConfig \/ GetListRepository \/ GetTaskRepository \/ Reset
SpecFactory == Init /\ [][NextFactory]_vars

\* SpecMigration: runs of up(), to the end or up to a failing statement, and
\* of down()
NextMigration == Up \/ Down
SpecMigration == Init /\ [][NextMigration]_vars

\* SpecIdentity: request bodies that carry, besides the fields of an update,
\* the owning list or the creation time of the entity.  No body names `id`:
\* an entry of a Map of the model is found by the id of its value, which is
\* the key it was stored under as long as no patch names `id`.
IdentityListPatches == {[name |-> "n2"], [createdAt |-> MaxClock]}
IdentityTaskPatches ==
  {[title |-> "B"], [listId |-> ListId(2)], [createdAt |-> MaxClock]}
NextIdentity ==
  \/ CreateList(LifeListDtos, PatchCreates - nextId.task, {0})
  \/ CreateTask(LifeTaskDtos, KnownListIds, PatchCreates - nextId.list, {0})
  \/ UpdateList(IdentityListPatches)
  \/ UpdateTask(IdentityTaskPatches)
  \/ ToggleComplete
SpecIdentity == Init /\ [][NextIdentity]_vars

(* ============================== claims ================================= *)
\* the order in which ids were generated
Ordinal(id) == id[2]

IsEntity(r) == r.kind = "entity"

\* a result without its absolute timestamps, for comparing the backends
StripTimes(e) ==
  [f \in DOMAIN e \ {"createdAt", "updatedAt"} |->
     IF f = "tasks"
     THEN [i \in 1 .. Len(e[f]) |->
             [g \in DOMAIN e[f][i] \ {"createdAt", "updatedAt"} |-> e[f][i][g]]]
     ELSE e[f]]

Normalized(r) ==
  IF r.kind = "entity" THEN Entity(StripTimes(r.val))
  ELSE IF r.kind = "array"
  THEN Entities([i \in 1 .. Len(r.val) |-> StripTimes(r.val[i])])
  ELSE r

\* C1: once the List Store's delete(L.id) or ListService.deleteList(L.id)
\* has returned true, the in-memory Task Store returns no task of L:
\* findById of every task of L is absent and findByListId(L.id) is empty.
C1_CascadeDelete ==
  (/\ last.op \in {"List.delete", "ListService.deleteList"}
   /\ last.mres = Bool(TRUE))
  => /\ \A id \in KnownTaskIds :
          LET found == MemoryTaskRepository_findById(memTasks, id)
          IN  IsEntity(found) => found.val.listId # last.id
     /\ MemoryTaskRepository_findByListId(memTasks, last.id, EmptyObject).val = << >>
     /\ \A t \in Range(MemoryTaskRepository_findAll(memTasks, EmptyObject).val) :
          t.listId # last.id

\* C2: every operation returns the same result from the in-memory store and
\* from the relational store, up to absolute timestamp values (ids are drawn
\* from the same counter): same entities, same fields, same order, same
\* absent/false outcomes.
C2_BackendEquivalence ==
  last.op \notin {"none", "List.addTask"}
  => \A r \in last.sres : Normalized(r) = Normalized(last.mres)

UpdateOps == {"List.update", "Task.update", "Task.toggleComplete"}

\* C3: in the in-memory stores, an update or toggleComplete that returns an
\* entity returns it with an updatedAt strictly greater than the updatedAt
\* the entity had when the call started, whatever the patch.
C3_MemoryRestamps ==
  (last.op \in UpdateOps /\ IsEntity(last.mres))
  => /\ IsEntity(last.mbefore)
     /\ last.mres.val.updatedAt > last.mbefore.val.updatedAt

\* an empty patch on a task that an earlier update has already re-stamped
C3_Witness ==
  /\ last.op = "Task.update"
  /\ last.data = EmptyObject
  /\ IsEntity(last.mres)
  /\ last.mbefore.val.updatedAt > last.mbefore.val.createdAt

\* C4: in the relational stores, an update or toggleComplete that returns an
\* entity returns it with an updatedAt strictly after the entity's previous
\* updatedAt, also within one clock tick and for a patch without fields.
C4_SqlRestamps ==
  last.op \in UpdateOps
  => \A r \in last.sres :
       IsEntity(r) => /\ IsEntity(last.sbefore)
                      /\ r.val.updatedAt > last.sbefore.val.updatedAt

\* C7: toggleComplete on an existing task returns the task with completed
\* negated, and the second of two calls made one after the other returns
\* and leaves it with the completed value it had before the first call, in
\* both backends.
C7_ToggleTwice ==
  last.op = "Task.toggleComplete"
  => /\ IsEntity(last.mres)
          => /\ last.mres.val.completed = ~last.mbefore.val.completed
             /\ MemoryTaskRepository_findById(memTasks, last.id) = last.mres
             /\ last.twice => last.mres.val.completed = last.mfirst.val.completed
     /\ \A r \in last.sres :
          IsEntity(r)
          => /\ r.val.completed = ~last.sbefore.val.completed
             /\ SQLTaskRepository_findById(sqlTasks, last.id) = r
             /\ last.twice => r.val.completed = last.sfirst.val.completed

\* the second toggleComplete of a pair has returned the task
C7_Witness ==
  /\ last.op = "Task.toggleComplete"
  /\ last.twice
  /\ IsEntity(last.mres)
  /\ \E r \in last.sres : IsEntity(r)

IsArray(r) == r.kind = "array"

\* a result task's deadline; the relational mapping leaves the field out
\* when the column is NULL
DeadlineOf(task) == IF "deadline" \in DOMAIN task THEN task.deadline ELSE NULL

\* the direction of a deadline-sorted query, "none" for any other operation
DeadlineQuery ==
  IF last.op = "Task.findSortedByDeadline" THEN last.order
  ELSE IF last.op = "Task.findAll" /\ "sortBy" \in DOMAIN last.params
          /\ last.params.sortBy = "deadline"
       THEN IF "sortOrder" \in DOMAIN last.params /\ last.params.sortOrder = "desc"
            THEN "desc" ELSE "asc"
  ELSE "none"

NullLast(tasks, order) ==
  \A i, j \in 1 .. Len(tasks) :
    i < j => LET di == DeadlineOf(tasks[i])
                 dj == DeadlineOf(tasks[j])
             IN  /\ di = NULL => dj = NULL
                 /\ (di # NULL /\ dj # NULL)
                      => IF order = "asc" THEN di <= dj ELSE di >= dj

\* C5: findSortedByDeadline(order) and findAll sorted by deadline return, in
\* both backends and both directions, every stored task, those with a
\* deadline before those without, and the deadlines present in the order
\* of the direction.
C5_NullLast ==
  DeadlineQuery # "none"
  => /\ IsArray(last.mres)
     /\ {t.id : t \in Range(last.mres.val)} = {t.id : t \in Range(memTasks)}
     /\ NullLast(last.mres.val, DeadlineQuery)
     /\ \A r \in last.sres :
          /\ IsArray(r)
          /\ {t.id : t \in Range(r.val)} = {row.id : row \in Range(sqlTasks)}
          /\ NullLast(r.val, DeadlineQuery)

\* a descending query over a store whose first task has no deadline and
\* whose second task has one
C5_Witness ==
  /\ DeadlineQuery = "desc"
  /\ Len(memTasks) = 2
  /\ memTasks[1].deadline = NULL
  /\ memTasks[2].deadline # NULL
  /\ last.mres.val[1].id = memTasks[2].id

\* the sort key of the last sorted query of the task store, by task
SortKey(task) ==
  IF last.op = "Task.findSortedByDeadline" THEN DeadlineOf(task)
  ELSE task[last.params.sortBy]

\* C6: in the in-memory task store, two tasks with equal sort keys appear in
\* the result of findSortedByDeadline and of a sorted findAll in the order
\* of their creation, for both directions and after updates and deletes.
C6_TieBreak ==
  (/\ \/ last.op = "Task.findSortedByDeadline"
      \/ last.op = "Task.findAll" /\ "sortBy" \in DOMAIN last.params
   /\ IsArray(last.mres))
  => \A i, j \in 1 .. Len(last.mres.val) :
       (i < j /\ SortKey(last.mres.val[i]) = SortKey(last.mres.val[j]))
       => Ordinal(last.mres.val[i].id) < Ordinal(last.mres.val[j].id)

\* a descending sort over two tasks with equal keys, the older of which has
\* been updated since the younger was created
C6_Witness ==
  /\ last.op = "Task.findAll"
  /\ last.params.sortBy = "priority"
  /\ last.params.sortOrder = "desc"
  /\ Len(last.mres.val) = 2
  /\ last.mres.val[1].priority = last.mres.val[2].priority
  /\ last.mres.val[1].updatedAt > last.mres.val[2].createdAt

\* the entities of a result come in the order of their creation
Ascending(entities) ==
  \A i, j \in 1 .. Len(entities) :
    i < j => Ordinal(entities[i].id) < Ordinal(entities[j].id)

\* C8: List Store findAll() returns every stored list, the list created
\* first coming first, in the in-memory and in the relational backend.
C8_ListsAscending ==
  last.op = "List.findAll"
  => /\ {l.id : l \in Range(last.mres.val)} = {l.id : l \in Range(memLists)}
     /\ Ascending(last.mres.val)
     /\ \A r \in last.sres :
          /\ {l.id : l \in Range(r.val)} = {row.id : row \in Range(sqlLists)}
          /\ Ascending(r.val)

HasNoTasks(r) ==
  /\ IsEntity(r)
  /\ "tasks" \in DOMAIN r.val
  /\ r.val.tasks = << >>

\* C9: in both backends the list returned by create, and the list returned
\* by findById right after its creation, has tasks equal to [].
C9_NewListHasNoTasks ==
  (\/ last.op = "List.create"
   \/ last.op = "List.findById" /\ last.fresh)
  => /\ HasNoTasks(last.mres)
     /\ \A r \in last.sres : HasNoTasks(r)

\* the ids of the tasks of a returned list, {} standing for no tasks field
TaskIdsOf(list) ==
  IF "tasks" \in DOMAIN list THEN {t.id : t \in Range(list.tasks)} ELSE {}

\* the lists of a findByIdWithTasks or findAllWithTasks result
ListsOf(r) ==
  IF IsEntity(r) THEN {r.val} ELSE IF IsArray(r) THEN Range(r.val) ELSE {}

\* C10: the tasks of a list returned by findByIdWithTasks and by
\* findAllWithTasks are exactly the tasks the Task Store holds for that
\* list, in both backends.
C10_TasksDerived ==
  last.op \in {"List.findByIdWithTasks", "List.findAllWithTasks"}
  => /\ \A l \in ListsOf(last.mres) :
          /\ "tasks" \in DOMAIN l
          /\ TaskIdsOf(l) =
               {t.id : t \in Range(MemoryTaskRepository_findByListId(
                                     memTasks, l.id, EmptyObject).val)}
     /\ \A r \in last.sres : \A l \in ListsOf(r) :
          /\ "tasks" \in DOMAIN l
          /\ TaskIdsOf(l) = {row.id : row \in {x \in Range(sqlTasks) : x.list_id = l.id}}

\* the task passes every filter the query holds
Satisfies(task, params) ==
  /\ "completed" \in DOMAIN params => task.completed = params.completed
  /\ "priority" \in DOMAIN params => task.priority = params.priority
  /\ "listId" \in DOMAIN params => task.listId = params.listId

\* the task is one findAll, or findByListId with last.listId, is asked for
Selected(task) ==
  /\ Satisfies(task, last.params)
  /\ last.op = "Task.findByListId" => task.listId = last.listId

\* the result holds each of the tasks once, as stored, and nothing else
Exactly(r, tasks) ==
  /\ IsArray(r)
  /\ Range(r.val) = tasks
  /\ Len(r.val) = Cardinality(tasks)

\* both backends return exactly the selected tasks
FiltersExact ==
  /\ Exactly(last.mres, {t \in Range(memTasks) : Selected(t)})
  /\ \A r \in last.sres :
       Exactly(r, {t \in {SQLTaskRepository_mapRowToTask(row) :
                            row \in Range(sqlTasks)} : Selected(t)})

\* C11: for every query, findAll(query) returns exactly the stored tasks
\* that pass every filter of the query, and findByListId(listId, query)
\* those of them that have that listId, in both backends.
C11_Filters ==
  last.op \in {"Task.findAll", "Task.findByListId"} => FiltersExact

\* the same for the queries that are not sorted by createdAt
FiltersOfOtherSorts ==
  (/\ last.op \in {"Task.findAll", "Task.findByListId"}
   /\ ~("sortBy" \in DOMAIN last.params /\ last.params.sortBy = "createdAt"))
  => FiltersExact

\* the last operation is a findAll or findByListId without a sort selector
DefaultOrderQuery ==
  /\ last.op \in {"Task.findAll", "Task.findByListId"}
  /\ "sortBy" \notin DOMAIN last.params

\* C12: without a sort selector findAll and findByListId return the tasks in
\* the order of their creation, in both backends and whatever updates,
\* toggles and deletes came before.
C12_CreationOrder ==
  DefaultOrderQuery
  => /\ Ascending(last.mres.val)
     /\ \A r \in last.sres : Ascending(r.val)

\* the same for the in-memory backend alone
MemoryCreationOrder ==
  DefaultOrderQuery => Ascending(last.mres.val)

\* the relational backend returns the tasks by ascending created_at
SqlCreatedAtOrder ==
  DefaultOrderQuery
  => \A r \in last.sres : \A i, j \in 1 .. Len(r.val) :
       i < j => r.val[i].createdAt <= r.val[j].createdAt

\* the task has a deadline, and it lies in the range of the last operation,
\* bounds included
DueInRange(task) ==
  /\ DeadlineOf(task) # NULL
  /\ last.startDate <= DeadlineOf(task)
  /\ DeadlineOf(task) <= last.endDate

\* C13: findDueInRange(start, end) returns exactly the stored tasks whose
\* deadline d exists and has start <= d <= end, in both backends; a task
\* without a deadline is in no result.
C13_DueInRange ==
  last.op = "Task.findDueInRange"
  => /\ Exactly(last.mres, {t \in Range(memTasks) : DueInRange(t)})
     /\ \A r \in last.sres :
          Exactly(r, {t \in {SQLTaskRepository_mapRowToTask(row) :
                               row \in Range(sqlTasks)} : DueInRange(t)})
     /\ \A t \in Range(last.mres.val) : t.deadline # NULL
     /\ \A r \in last.sres : \A t \in Range(r.val) : "deadline" \in DOMAIN t

\* a range that ends on the deadline of a stored task, which is returned
\* while a stored task without a deadline is not
C13_Witness ==
  /\ last.op = "Task.findDueInRange"
  /\ Len(memTasks) = 2
  /\ \E t \in Range(memTasks) : t.deadline = NULL
  /\ \E t \in Range(last.mres.val) : t.deadline = last.endDate
  /\ Len(last.mres.val) = 1

\* the task was created just now under a stored list, due in one day
DueInOneDay(task) ==
  /\ task.deadline = last.now + TicksPerDay
  /\ task.createdAt = last.now
  /\ \E l \in Range(memLists) : l.id = task.listId

Includes(r, task) == IsArray(r) /\ \E t \in Range(r.val) : t.id = task.id

\* findDueThisWeek() includes the task, in both backends
ThisWeekIncludes(task) ==
  /\ Includes(last.mres, task)
  /\ \A r \in last.sres : Includes(r, task)

\* C14 as stated: on whatever day and at whatever time it runs, a
\* findDueThisWeek() that follows at once the creation of a list and of a
\* task under it due one day later includes that task.
C14_AnyDay ==
  last.op = "Task.findDueThisWeek"
  => \A task \in Range(memTasks) : DueInOneDay(task) => ThisWeekIncludes(task)

\* C14: unless it runs on the last day of the week, a findDueThisWeek()
\* that follows at once the creation of a list and of a task under it due
\* one day later includes that task, in both backends.
C14_BeforeLastDay ==
  (last.op = "Task.findDueThisWeek" /\ GetDay(last.now) # LastDayOfWeek)
  => \A task \in Range(memTasks) : DueInOneDay(task) => ThisWeekIncludes(task)

\* on the day before the last of the week, at its last moment, the task due
\* one day later has been created and is in the result
C14_Witness ==
  /\ last.op = "Task.findDueThisWeek"
  /\ GetDay(last.now) = LastDayOfWeek - 1
  /\ (last.now + 1) % TicksPerDay = 0
  /\ \E task \in Range(memTasks) : DueInOneDay(task) /\ ThisWeekIncludes(task)

\* the operations that change the entity an id names
ListUpdateOps == {"List.update", "ListService.updateList"}
TaskUpdateOps == {"Task.update", "Task.toggleComplete",
                  "TaskService.updateTask", "TaskService.toggleTaskCompletion"}

\* the patch of a service call, where there is one, passes validation
ValidPatch(l) ==
  /\ l.op = "ListService.updateList" => ListService_validateUpdateListData(l.data)
  /\ l.op = "TaskService.updateTask" => TaskService_validateUpdateTaskData(l.data, l.now)

\* the id of the call is an id, and no entity of its kind is stored under it
NamesNothing(l) ==
  /\ l.id # EmptyId
  /\ l.op \in ListUpdateOps => ~Has(memLists, l.id) /\ ~Has(sqlLists, l.id)
  /\ l.op \in TaskUpdateOps => ~Has(memTasks, l.id) /\ ~Has(sqlTasks, l.id)

\* C15: update(id, patch) and toggleComplete(id), on the List Store, the
\* Task Store and through the services with a valid patch, return null
\* without throwing when id names no stored entity, and leave every store
\* as it was, in both backends.
C15_UnknownId ==
  [][(/\ last'.op \in ListUpdateOps \cup TaskUpdateOps
      /\ ValidPatch(last')
      /\ NamesNothing(last'))
     => /\ last'.mres = Absent
        /\ last'.sres = {Absent}
        /\ UNCHANGED stores]_vars

\* a service update with a patch that holds a field, of a task id that is
\* not stored while another task is, has returned null
C15_Witness ==
  /\ last.op = "TaskService.updateTask"
  /\ DOMAIN last.data # {}
  /\ last.id # EmptyId
  /\ ~Has(memTasks, last.id) /\ ~Has(sqlTasks, last.id)
  /\ Len(memTasks) = 1
  /\ last.mres = Absent
  /\ last.sres = {Absent}

\* C16: TaskService.createTask(listId, data) throws ValidationError for an
\* empty listId and NotFoundError for a listId under which no list is
\* stored, leaves the Task Store as it was in both cases, and stores a task
\* only when a list is stored under listId.
C16_CreateTaskGuards ==
  [][last'.op = "TaskService.createTask"
     => /\ last'.listId = EmptyId
             => /\ last'.mres = ValidationError
                /\ last'.sres = {ValidationError}
                /\ UNCHANGED <<memTasks, sqlTasks>>
        /\ (last'.listId # EmptyId /\ ~Has(memLists, last'.listId))
             => last'.mres = NotFoundError /\ UNCHANGED memTasks
        /\ (last'.listId # EmptyId /\ ~Has(sqlLists, last'.listId))
             => last'.sres = {NotFoundError} /\ UNCHANGED sqlTasks
        /\ memTasks' # memTasks => Has(memLists, last'.listId)
        /\ sqlTasks' # sqlTasks => Has(sqlLists, last'.listId)]_vars

\* createTask with valid data and the id of no stored list, while another
\* list is stored, has thrown NotFoundError
C16_Witness ==
  /\ last.op = "TaskService.createTask"
  /\ last.listId # EmptyId
  /\ ~Has(memLists, last.listId)
  /\ Len(memLists) = 1
  /\ TaskService_validateCreateTaskData(last.data, last.now)
  /\ last.mres = NotFoundError
  /\ last.sres = {NotFoundError}

\* the name the call was given is empty or holds white space only
NamelessCreate(l, op) == l.op = op /\ Trim(l.data.name) = ""

\* the result is the list of that id and name, and the lists hold it
Accepted(r, lists, id, name) ==
  /\ IsEntity(r)
  /\ r.val.id = id
  /\ r.val.name = name
  /\ Has(lists, id)
  /\ lists[IndexOf(lists, id)].name = name

BadText(data, f, max) ==
  f \in DOMAIN data /\ (Trim(data[f]) = "" \/ Len(data[f]) > max)

\* the description is longer than max
LongDescription(data, max) ==
  /\ "description" \in DOMAIN data
  /\ data.description # NullStr
  /\ Len(data.description) > max

\* the input of the service call breaks a rule of one of its fields
BreaksRule(l) ==
  IF l.op \in {"ListService.createList", "ListService.updateList"}
  THEN \/ BadText(l.data, "name", MaxNameLength)
       \/ LongDescription(l.data, MaxListDescriptionLength)
  ELSE \/ BadText(l.data, "title", MaxTitleLength)
       \/ LongDescription(l.data, MaxTaskDescriptionLength)
       \/ "priority" \in DOMAIN l.data /\ l.data.priority \notin Priorities
       \/ "deadline" \in DOMAIN l.data /\ l.data.deadline # NULL
            /\ l.data.deadline < l.now

FieldRuleOps == {"ListService.createList", "ListService.updateList",
                 "TaskService.createTask", "TaskService.updateTask"}

\* the call has thrown ValidationError and no store has changed
Rejected ==
  /\ last'.mres = ValidationError
  /\ last'.sres = {ValidationError}
  /\ UNCHANGED stores

\* C18: a createList, updateList, createTask or updateTask call of the
\* services whose input breaks a field rule throws ValidationError and
\* leaves both stores as they were.
C18_RulesEnforced ==
  [][(last'.op \in FieldRuleOps /\ BreaksRule(last')) => Rejected]_vars

\* the same, leaving out createTask under the id of no stored list and
\* createTask with the empty string as priority
RulesEnforcedElsewhere ==
  [][(/\ last'.op \in FieldRuleOps
      /\ BreaksRule(last')
      /\ last'.op = "TaskService.createTask"
           => /\ Has(memLists, last'.listId)
              /\ ~("priority" \in DOMAIN last'.data /\ last'.data.priority = ""))
     => Rejected]_vars

\* the fields a patch can name
PatchFields ==
  IF last.op = "List.update" THEN {"name", "description"}
  ELSE {"title", "description", "completed", "deadline", "priority"}

\* the value of a field of an entity; a deadline left out is an absent one
FieldOf(e, f) == IF f \in DOMAIN e THEN e[f] ELSE NULL

\* after holds the patch's value in every field the patch names and
\* before's value in every other field a patch can name
Patched(before, after) ==
  /\ IsEntity(after)
  /\ \A f \in PatchFields :
       FieldOf(after.val, f) = IF f \in DOMAIN last.data THEN last.data[f]
                               ELSE FieldOf(before.val, f)

\* C19: update(id, patch) on a stored list or task returns, and leaves
\* stored, an entity in which every field the patch names has the patch's
\* value and every other of name, description (lists) and title,
\* description, completed, deadline, priority (tasks) has the value it had
\* before the call, in both backends.
C19_PartialUpdate ==
  /\ (last.op \in {"List.update", "Task.update"} /\ IsEntity(last.mbefore))
       => /\ Patched(last.mbefore, last.mres)
          /\ Patched(last.mbefore,
                     IF last.op = "List.update"
                     THEN MemoryListRepository_findById(memLists, memListTasks, last.id)
                     ELSE MemoryTaskRepository_findById(memTasks, last.id))
  /\ (last.op \in {"List.update", "Task.update"} /\ IsEntity(last.sbefore))
       => /\ \A r \in last.sres : Patched(last.sbefore, r)
          /\ Patched(last.sbefore,
                     IF last.op = "List.update"
                     THEN SQLListRepository_findById(sqlLists, last.id)
                     ELSE SQLTaskRepository_findById(sqlTasks, last.id))

\* a patch of deadline and priority on a task with a title, a description
\* and a deadline, which has kept title and description and lost the
\* deadline
C19_Witness ==
  /\ last.op = "Task.update"
  /\ last.data = [deadline |-> NULL, priority |-> "low"]
  /\ IsEntity(last.mbefore)
  /\ last.mbefore.val.deadline = 1
  /\ last.mres.val.description = "d"
  /\ \A r \in last.sres : "deadline" \notin DOMAIN r.val /\ r.val.description = "d"

(* C20: identity is immutable.  Over every step of either store and for
   every patch handed to update, a task that stays stored keeps its listId
   and its createdAt, a list that stays stored keeps its createdAt, and the
   entity found under an id is the one that was stored under it (so it keeps
   its id, and no two entries share one). *)
SameIdentity(before, after, fields) ==
  \A i \in 1 .. Len(before), j \in 1 .. Len(after) :
    before[i].id = after[j].id =>
      /\ i = j
      /\ \A f \in fields : before[i][f] = after[j][f]

C20_IdentityImmutable ==
  [][/\ SameIdentity(memTasks, memTasks', {"listId", "createdAt"})
     /\ SameIdentity(sqlTasks, sqlTasks', {"list_id", "created_at"})
     /\ SameIdentity(memLists, memLists', {"createdAt"})
     /\ SameIdentity(sqlLists, sqlLists', {"created_at"})]_vars

\* the relational store alone keeps the identity of its rows
SqlIdentityImmutable ==
  [][/\ SameIdentity(sqlTasks, sqlTasks', {"list_id", "created_at"})
     /\ SameIdentity(sqlLists, sqlLists', {"created_at"})]_vars

(* C21: in every reachable state of either store, every stored list and
   every stored task has updatedAt >= createdAt. *)
C21_UpdatedAfterCreated ==
  /\ \A e \in Range(memLists) \cup Range(memTasks) : e.updatedAt >= e.createdAt
  /\ \A row \in Range(sqlLists) \cup Range(sqlTasks) :
       FromISO(row.updated_at) >= FromISO(row.created_at)

\* the relational store alone, whose UPDATE names its columns
SqlUpdatedAfterCreated ==
  \A row \in Range(sqlLists) \cup Range(sqlTasks) :
    FromISO(row.updated_at) >= FromISO(row.created_at)

(* C22: delete(id) of either store returns true exactly when an entity with
   that id was stored when the call was made; after the call findById(id)
   is null and exists(id) is false; and a call that returns false leaves
   every stored list and every stored task unchanged (the tasks as the Task
   Store holds them and as the List Store hands them out with its lists). *)
ListDeleteResult ==
  last'.op = "List.delete" =>
    LET id == last'.id
    IN  /\ last'.mres = Bool(Has(memLists, id))
        /\ last'.sres = {Bool(Has(sqlLists, id))}
        /\ MemoryListRepository_findById(memLists', memListTasks', id) = Absent
        /\ MemoryListRepository_exists(memLists', id) = Bool(FALSE)
        /\ SQLListRepository_findById(sqlLists', id) = Absent
        /\ SQLListRepository_exists(sqlLists', id) = Bool(FALSE)
        /\ last'.mres = Bool(FALSE) =>
             /\ UNCHANGED <<memLists, memTasks>>
             /\ MemoryListRepository_findAllWithTasks(memLists', memListTasks')
                  = MemoryListRepository_findAllWithTasks(memLists, memListTasks)
        /\ last'.sres = {Bool(FALSE)} => UNCHANGED <<sqlLists, sqlTasks>>

TaskDeleteResult ==
  last'.op = "Task.delete" =>
    LET id == last'.id
    IN  /\ last'.mres = Bool(Has(memTasks, id))
        /\ last'.sres = {Bool(Has(sqlTasks, id))}
        /\ MemoryTaskRepository_findById(memTasks', id) = Absent
        /\ MemoryTaskRepository_exists(memTasks', id) = Bool(FALSE)
        /\ SQLTaskRepository_findById(sqlTasks', id) = Absent
        /\ SQLTaskRepository_exists(sqlTasks', id) = Bool(FALSE)
        /\ last'.mres = Bool(FALSE) => UNCHANGED <<memLists, memListTasks, memTasks>>
        /\ last'.sres = {Bool(FALSE)} => UNCHANGED <<sqlLists, sqlTasks>>

C22_DeleteResult == [][ListDeleteResult /\ TaskDeleteResult]_vars

\* a delete that found nothing under its id, in stores that hold a list and a
\* task, after a delete that did
C22_Witness ==
  /\ last.op = "Task.delete"
  /\ last.mres = Bool(FALSE)
  /\ last.sres = {Bool(FALSE)}
  /\ last.id # TaskId(0)
  /\ memTasks # << >>
  /\ memLists # << >>

(* C23: deleting one entity does not affect the others.  A successful
   delete(t) of the Task Store leaves every other task stored, in place and
   with unchanged fields; a successful delete(l) of the List Store leaves
   every other list, and every task owned by another list, stored and
   unchanged. *)
Others(s, id) == SelectSeq(s, LAMBDA e : e.id # id)

OwnedByOthers(s, f, listId) == SelectSeq(s, LAMBDA e : e[f] # listId)

TaskDeleteFrame ==
  last'.op = "Task.delete" /\ last'.mres = Bool(TRUE) =>
    /\ memTasks' = Others(memTasks, last'.id)
    /\ sqlTasks' = Others(sqlTasks, last'.id)
    /\ UNCHANGED <<memLists, sqlLists>>

ListDeleteFrame ==
  last'.op = "List.delete" /\ last'.mres = Bool(TRUE) =>
    LET id == last'.id
    IN  /\ memLists' = Others(memLists, id)
        /\ sqlLists' = Others(sqlLists, id)
        /\ OwnedByOthers(memTasks', "listId", id) = OwnedByOthers(memTasks, "listId", id)
        /\ OwnedByOthers(sqlTasks', "list_id", id) = OwnedByOthers(sqlTasks, "list_id", id)
        /\ OwnedByOthers(memListTasks', "listId", id)
             = OwnedByOthers(memListTasks, "listId", id)

C23_DeleteFrame == [][TaskDeleteFrame /\ ListDeleteFrame]_vars

\* a task was deleted and another task stays; a list and a task it owns stay
C23_Witness ==
  /\ last.op = "Task.delete"
  /\ last.mres = Bool(TRUE)
  /\ last.sres = {Bool(TRUE)}
  /\ memTasks # << >>
  /\ sqlTasks # << >>
  /\ \E l \in Range(memLists) : \E t \in Range(memTasks) : t.listId = l.id

(* C24: no orphan under interleaving.  Once every createTask and deleteList
   call issued has returned, no stored task names, as its listId, a list
   that is not stored. *)
NoOrphan(tasks, f, lists) == \A task \in Range(tasks) : Has(lists, task[f])

C24_NoOrphan ==
  AllReturned =>
    /\ NoOrphan(memTasks, "listId", memLists)
    /\ NoOrphan(sqlTasks, "list_id", sqlLists)

\* the case C24 singles out: createTask stores its task only under a list
\* that is stored at that moment
CreatedUnderStoredList ==
  \A i \in 1 .. Len(calls) :
    calls[i].op = "TaskService.createTask" /\ calls[i].pc = "returned" =>
      /\ IsEntity(calls[i].mres) => calls[i].mstored
      /\ IsEntity(calls[i].sres) => calls[i].sstored

(* C25: no lost update.  When update and toggleComplete calls on one stored
   task of the in-memory Task Store are issued without awaiting the one
   before, then once all have returned the stored task is the one that the
   calls leave when they run one after the other in issue order (updatedAt
   apart): two toggles restore completed, and a field written by one call
   is not reverted by a later one. *)
RECURSIVE InIssueOrder(_, _)
InIssueOrder(task, n) ==
  IF n = 0 THEN task
  ELSE LET before == InIssueOrder(task, n - 1)
       IN  IF calls[n].op = "Task.update" THEN Spread(before, calls[n].data)
           ELSE [before EXCEPT !.completed = ~before.completed]

\* every call of the round is an update or a toggleComplete of one task that
\* was stored when the call was issued
SameTaskWritten ==
  /\ Len(calls) >= 2
  /\ \A i \in 1 .. Len(calls) :
       /\ calls[i].op \in {"Task.update", "Task.toggleComplete"}
       /\ calls[i].id = calls[1].id
       /\ calls[i].task # Absent

C25_NoLostUpdate ==
  AllReturned /\ SameTaskWritten =>
    LET id == calls[1].id
    IN  /\ Has(memTasks, id)
        /\ [memTasks[IndexOf(memTasks, id)] EXCEPT !.updatedAt = 0]
             = [InIssueOrder(calls[1].task, Len(calls)) EXCEPT !.updatedAt = 0]

(* C26: a deleted entity stays deleted.  If delete(id) of the in-memory Task
   Store returned true while an update or toggleComplete of the same task
   was waiting for its timer, then once all calls have returned findById(id)
   is null, exists(id) is false and findAll() does not contain the task. *)
DeletedWhileWaiting(i) ==
  /\ calls[i].op = "Task.delete"
  /\ calls[i].mres = Bool(TRUE)
  /\ calls[i].waiting # {}

C26_StaysDeleted ==
  AllReturned =>
    \A i \in 1 .. Len(calls) :
      DeletedWhileWaiting(i) =>
        /\ MemoryTaskRepository_findById(memTasks, calls[i].id) = Absent
        /\ MemoryTaskRepository_exists(memTasks, calls[i].id) = Bool(FALSE)
        /\ \A task \in Range(MemoryTaskRepository_findAll(memTasks, EmptyObject).val) :
             task.id # calls[i].id

(* C27: read operations write nothing.  findAll (with any filters and sort),
   findByListId, findById, findDueInRange, findDueThisWeek,
   findSortedByDeadline and exists of the Task Store, and findAll,
   findAllWithTasks, findById, findByIdWithTasks and exists of the List
   Store, leave the stored entities, every field of each and the stored
   creation order as they were. *)
ReadOps ==
  {"Task.findAll", "Task.findByListId", "Task.findById", "Task.findDueInRange",
   "Task.findDueThisWeek", "Task.findSortedByDeadline", "Task.exists",
   "List.findAll", "List.findAllWithTasks", "List.findById",
   "List.findByIdWithTasks", "List.exists"}

C27_ReadsWriteNothing ==
  [][last'.op \in ReadOps => UNCHANGED stores]_vars

\* a sorted read has returned two tasks in another order than they are stored
C27_Witness ==
  /\ last.op = "Task.findAll"
  /\ "sortBy" \in DOMAIN last.params
  /\ Len(memTasks) = 2
  /\ Len(last.mres.val) = 2
  /\ last.mres.val # memTasks
  /\ \A r \in last.sres : IsArray(r) /\ Len(r.val) = 2

(* C28: migrations are applied once and in order.  Over every sequence of
   up() and down() runs, a run of up() executes migration files in ascending
   filename order and executes no file whose SQL has already been executed
   successfully. *)
ExecutedNow == SubSeq(schemaLog', Len(schemaLog) + 1, Len(schemaLog'))

AscendingNames(files) ==
  \A i \in 1 .. Len(files), j \in 1 .. Len(files) :
    i < j => TextCompare(files[i], files[j]) < 0

C28_OnceInOrder ==
  [][/\ AscendingNames(ExecutedNow)
     /\ \A f \in Range(ExecutedNow) : f \notin Range(schemaLog)]_vars

\* what holds of the code: a run executes, in ascending filename order, files
\* that the migrations table does not hold
InOrderAndUnrecorded ==
  [][/\ AscendingNames(ExecutedNow)
     /\ \A f \in Range(ExecutedNow) : f \notin Range(migrations)]_vars

(* C29: over every sequence of getListRepository(type?),
   getTaskRepository(type?) and reset() calls, the list repository and the
   task repository the factory holds are of the same backend, and between
   two resets every call of a getter returns the instance its first call
   created. *)
SameBackend ==
  (listRepository # Null /\ taskRepository # Null)
    => listRepository.type = taskRepository.type

FirstInstanceReturned ==
  /\ (last'.op = "Factory.getListRepository" /\ listRepository # Null)
       => (last'.result = listRepository /\ UNCHANGED listRepository)
  /\ (last'.op = "Factory.getTaskRepository" /\ taskRepository # Null)
       => (last'.result = taskRepository /\ UNCHANGED taskRepository)
  /\ (last'.op = "Factory.getListRepository" /\ last'.result # Thrown)
       => last'.result = listRepository'
  /\ (last'.op = "Factory.getTaskRepository" /\ last'.result # Thrown)
       => last'.result = taskRepository'

C29_OneBackendSingletons ==
  [][SameBackend' /\ FirstInstanceReturned]_vars

\* what holds of the code: each getter hands out its first instance until
\* the next reset
FactorySingletons == [][FirstInstanceReturned]_vars

(* C30: DatabaseConnection hands out a connection only while connected.
   getConnection(), and with it query, queryOne, execute and
   executeMultiple, succeeds exactly when some connect() has resolved and no
   close() has resolved since; before any connect, after a rejected
   connect(), while the first connect() is pending and after close() it
   throws. *)
C30_OnlyWhileConnected ==
  [][(last'.op \in ConnectionMethods)
       => ((last'.result # Thrown) <=> connected)]_vars

\* what holds of the code: the methods throw exactly when this.db is null,
\* which it is before the first connect() and after a close() that resolved
ThrowsWithoutHandle ==
  [][(last'.op \in ConnectionMethods)
       => ((last'.result = Thrown) <=> db = Null)]_vars

====
